---------------------------- MODULE Spec2Model ----------------------------
(***************************************************************************)
(* A model of the planar graph engine (src/src/graph.ts), its geometry and  *)
(* parsing helpers (util.ts, vec2.ts) and the JSON submission workflow of   *)
(* the application (src/src/app.tsx).                                       *)
(*                                                                          *)
(* Numbers.  Every coordinate is an integer count of 1/Unit, so that the    *)
(* arithmetic of the program over the modelled inputs is exact: a draw of   *)
(* Math.random() is k/RandLevels, a JSON coordinate is an integer.  Angles  *)
(* returned by Math.atan2 are represented by the direction vector they are  *)
(* the angle of, and compared exactly.                                      *)
(*                                                                          *)
(* Objects.  A vertex is its creation index (1-based).  An edge object is   *)
(* <<key, vertex0, vertex1>> with key unique per created edge.  A half-edge *)
(* is <<edge, side>>, side 0 for halfEdgeFromVertex0 and 1 for              *)
(* halfEdgeFromVertex1.  A face is its index in graph.faces.                *)
(***************************************************************************)
EXTENDS Integers, Sequences, FiniteSets, TLC

VARIABLES
  pc,       \* where the modelled run stands
  origin,   \* what the run is of: a graph constructed at "random" or from
            \* "json", a parsed "document", the "app", a "renderer" alone, the
            \* "public" methods of a constructed graph
  g,        \* the Graph instance
  pending,  \* createEdges: the pairs of the shuffled list not yet visited;
            \* public methods: the calls of loadFromSerialized made so far
  input,    \* the GraphSerialized value handed to Graph.fromSerialized, the
            \* document handed to parseGraphData
  out,      \* the value returned by the last call of serialize; the last
            \* handler or renderer method called
  ret,      \* the value returned by the last pruning call, query, parser
            \* call or renderer method
  app       \* the application: renderer and React state

vars == <<pc, origin, g, pending, input, out, ret, app>>

-----------------------------------------------------------------------------
(* Bounds of the model *)

\* Vertices requested from Graph.randomizedWithVertexCount.
VertexCount == 4

\* Math.random() returns k/RandLevels for k in 0..RandLevels-1.
RandLevels == 3

-----------------------------------------------------------------------------
(* Generic helpers on sequences *)

\* TRUE of every value; used to have a value computed before it is passed on,
\* which keeps nested evaluation shallow.
Evaluated(v) == v = v

\* A for loop over xs[lo], ..., xs[hi] whose body takes st to Step(st, x): the
\* first half of the iterations, then the second half.
RECURSIVE FoldRange(_, _, _, _, _)
FoldRange(Step(_, _), st, xs, lo, hi) ==
  IF lo > hi THEN st
  ELSE IF lo = hi THEN Step(st, xs[lo])
  ELSE LET mid == (lo + hi) \div 2
           firstHalf == FoldRange(Step, st, xs, lo, mid)
       IN IF Evaluated(firstHalf)
          THEN FoldRange(Step, firstHalf, xs, mid + 1, hi)
          ELSE firstHalf

\* for(const x of xs) st = Step(st, x)
Fold(Step(_, _), st, xs) == FoldRange(Step, st, xs, 1, Len(xs))

\* The sequence 1, 2, ..., n.
UpTo(n) == [i \in 1..n |-> i]

Range(s) == {s[i] : i \in 1..Len(s)}

Contains(s, x) == \E i \in 1..Len(s) : s[i] = x

\* Array.prototype.indexOf: the first index holding x, 0 when there is none.
IndexOf(s, x) ==
  IF Contains(s, x) THEN CHOOSE i \in 1..Len(s) : s[i] = x /\ \A j \in 1..(i-1) : s[j] # x
  ELSE 0

\* indexOf followed by splice(index, 1): drops the first occurrence only.
RemoveFirst(s, x) ==
  LET i == IndexOf(s, x)
  IN IF i = 0 THEN s ELSE SubSeq(s, 1, i-1) \o SubSeq(s, i+1, Len(s))

Abs(n) == IF n < 0 THEN -n ELSE n

RECURSIVE Gcd(_, _)
Gcd(a, b) == IF b = 0 THEN a ELSE Gcd(b, a % b)

RECURSIVE LcmUpTo(_)
LcmUpTo(n) == IF n <= 1 THEN 1 ELSE LET l == LcmUpTo(n-1) IN (l * n) \div Gcd(l, n)


-----------------------------------------------------------------------------
(* Program constants: Graph.width, Graph.height, Graph.padding (in tenths) *)

GraphWidth == 2

GraphHeight == 2

PaddingTenths == 1

\* Largest raw coordinate of a deserialized vertex (JSON integers 0..MaxCoord).
MaxCoord == 2

\* One graph-space unit is Unit model units: a multiple of 10 (the padding is
\* 0.1) and of every extent a bounding box of the modelled inputs can have, so
\* that the quotients of normalizeVerticesToGraphSpace are integers.
Unit == 10 * LcmUpTo(IF RandLevels > MaxCoord THEN RandLevels ELSE MaxCoord)

\* Quotient of a division the choice of Unit makes exact (b > 0).
ExactDiv(a, b) == IF a >= 0 THEN a \div b ELSE -((-a) \div b)

-----------------------------------------------------------------------------
(* vec2 *)

Sub(a, b) == <<a[1] - b[1], a[2] - b[2]>>

Add(a, b) == <<a[1] + b[1], a[2] + b[2]>>

Cross(a, b) == a[1] * b[2] - a[2] * b[1]

Dot(a, b) == a[1] * b[1] + a[2] * b[2]

\* vec2.length is compared only; the square is compared instead (Math.hypot is
\* monotone in it).
LengthSq(a) == a[1] * a[1] + a[2] * a[2]

-----------------------------------------------------------------------------
(* util: geometry predicates *)

\* num/den lies in [0,1] and is finite.  A zero den gives NaN or an infinity,
\* which Number.isFinite rejects.
UnitInterval(num, den) ==
  \/ den > 0 /\ 0 <= num /\ num <= den
  \/ den < 0 /\ den <= num /\ num <= 0

\* num/den is finite and >= 0.
NonNegative(num, den) ==
  \/ den > 0 /\ num >= 0
  \/ den < 0 /\ num <= 0

\* A variant that misses an endpoint of one segment lying on the other.
OpenUnitInterval(num, den) ==
  \/ den > 0 /\ 0 < num /\ num < den
  \/ den < 0 /\ den < num /\ num < 0

lineSegmentIntersectOpen(a0, a1, b0, b1) ==
  LET r == Sub(a1, a0)
      s == Sub(b1, b0)
      denominator == Cross(r, s)
      q == Sub(b0, a0)
  IN OpenUnitInterval(Cross(q, s), denominator) /\ OpenUnitInterval(Cross(q, r), denominator)

lineSegmentIntersect(a0, a1, b0, b1) ==
  LET r == Sub(a1, a0)
      s == Sub(b1, b0)
      denominator == Cross(r, s)
      q == Sub(b0, a0)
  IN UnitInterval(Cross(q, s), denominator) /\ UnitInterval(Cross(q, r), denominator)

\* A variant of rayLineSegmentIntersect that also accepts tRay < 0: the line
\* through rayOrigin instead of the ray.
rayLineSegmentIntersectLine(rayOrigin, rayDirection, v0, v1) ==
  LET segment == Sub(v1, v0)
      denominator == Cross(rayDirection, segment)
      originToSegment == Sub(v0, rayOrigin)
  IN UnitInterval(Cross(originToSegment, rayDirection), denominator)

\* TRUE when the code returns a point (a truthy vec2), FALSE for undefined.
rayLineSegmentIntersect(rayOrigin, rayDirection, v0, v1) ==
  LET segment == Sub(v1, v0)
      denominator == Cross(rayDirection, segment)
      originToSegment == Sub(v0, rayOrigin)
  IN /\ NonNegative(Cross(originToSegment, segment), denominator)
     /\ UnitInterval(Cross(originToSegment, rayDirection), denominator)

-----------------------------------------------------------------------------
(* GraphEdge, GraphHalfEdge *)

Null == <<>>

Vertex0(e) == e[2]

Vertex1(e) == e[3]

HalfEdgeFromVertex0(e) == <<e, 0>>

HalfEdgeFromVertex1(e) == <<e, 1>>

\* GraphEdge constructor sets the two half-edges as mutual twins.
Twin(h) == <<h[1], 1 - h[2]>>

Origin(h) == IF h[2] = 0 THEN Vertex0(h[1]) ELSE Vertex1(h[1])

EdgeOf(h) == h[1]

sharesVertexWithEdge(e, f) ==
  \/ Vertex0(e) = Vertex0(f)
  \/ Vertex0(e) = Vertex1(f)
  \/ Vertex1(e) = Vertex0(f)
  \/ Vertex1(e) = Vertex1(f)

EdgeLengthSq(gr, e) == LengthSq(Sub(gr.pos[Vertex1(e)], gr.pos[Vertex0(e)]))

-----------------------------------------------------------------------------
(* GraphVertex *)

\* edgeAngle: the direction whose atan2 the code returns.  atan2(0, 0) is 0,
\* the angle of <<1, 0>>.
edgeAngle(gr, v, e) ==
  LET u == IF Vertex0(e) = v THEN Vertex1(e) ELSE Vertex0(e)
      direction == Sub(gr.pos[u], gr.pos[v])
  IN IF direction = <<0, 0>> THEN <<1, 0>> ELSE direction

\* atan2 ranges over (-pi, pi]: below the x axis, on its positive half, above
\* it, on its negative half.
AngleClass(d) ==
  IF d[2] < 0 THEN 1
  ELSE IF d[2] > 0 THEN 3
  ELSE IF d[1] >= 0 THEN 2 ELSE 4

\* atan2 of a is smaller than atan2 of b.
AngleLess(a, b) ==
  \/ AngleClass(a) < AngleClass(b)
  \/ /\ AngleClass(a) = AngleClass(b)
     /\ AngleClass(a) \in {1, 3}
     /\ Cross(a, b) > 0

\* Array.prototype.sort is stable: insertion of x behind every element that
\* does not compare greater.
RECURSIVE InsertByAngle(_, _, _, _)
InsertByAngle(gr, v, sorted, e) ==
  IF sorted = <<>> THEN <<e>>
  ELSE IF AngleLess(edgeAngle(gr, v, e), edgeAngle(gr, v, Head(sorted)))
       THEN <<e>> \o sorted
       ELSE <<Head(sorted)>> \o InsertByAngle(gr, v, Tail(sorted), e)

RECURSIVE SortByAngle(_, _, _)
SortByAngle(gr, v, es) ==
  IF es = <<>> THEN <<>>
  ELSE InsertByAngle(gr, v, SortByAngle(gr, v, SubSeq(es, 1, Len(es) - 1)), es[Len(es)])

sortEdgesCCW(gr, v) ==
  [gr EXCEPT !.vedges[v] = SortByAngle(gr, v, gr.vedges[v])]

\* for(const vertex of this.vertices) vertex.sortEdgesCCW()
SortAll(gr) == Fold(sortEdgesCCW, gr, gr.vertices)

-----------------------------------------------------------------------------
(* Graph: the fields of a Graph instance as a record                        *)
(*   pos       position of every vertex object ever created                 *)
(*   vertices  graph.vertices                                                *)
(*   vedges    vertex.edges of every vertex object                          *)
(*   edges     graph.edges                                                   *)
(*   halfEdges graph.halfEdges                                               *)
(*   next      halfEdge.next, face  halfEdge.face (0 is null)               *)
(*   faces     graph.faces: the halfEdges list of each face                 *)
(*   made      number of GraphEdge objects created so far (the next key)    *)

EmptyGraph ==
  [pos |-> <<>>, vertices |-> <<>>, vedges |-> <<>>, edges |-> <<>>,
   halfEdges |-> <<>>, next |-> <<>>, face |-> <<>>, faces |-> <<>>, made |-> 0]

\* this.vertices.push(new GraphVertex(pos))
AddVertex(gr, p) ==
  [gr EXCEPT !.pos = Append(@, p),
             !.vertices = Append(@, Len(gr.pos) + 1),
             !.vedges = Append(@, <<>>)]

registerEdge(gr, e) ==
  [gr EXCEPT !.edges = Append(@, e),
             !.made = IF e[1] > @ THEN e[1] ELSE @,
             !.halfEdges = @ \o <<HalfEdgeFromVertex0(e), HalfEdgeFromVertex1(e)>>,
             !.vedges = [v \in DOMAIN @ |->
                           LET a == IF v = Vertex0(e) THEN Append(@[v], e) ELSE @[v]
                           IN IF v = Vertex1(e) THEN Append(a, e) ELSE a]]

removeHalfEdge(gr, h) == [gr EXCEPT !.halfEdges = RemoveFirst(@, h)]

\* Graph.removeEdge, with GraphVertex.removeEdge on both endpoints (one after
\* the other: a loop edge is listed twice at its vertex and loses both entries).
removeEdge(gr, e) ==
  LET g1 == [gr EXCEPT !.edges = RemoveFirst(@, e)]
      g2 == removeHalfEdge(removeHalfEdge(g1, HalfEdgeFromVertex0(e)), HalfEdgeFromVertex1(e))
      g3 == [g2 EXCEPT !.vedges[Vertex0(e)] = RemoveFirst(@, e)]
  IN [g3 EXCEPT !.vedges[Vertex1(e)] = RemoveFirst(@, e)]

-----------------------------------------------------------------------------
(* Graph.removeSmallAngles *)

\* tan(t) < tan(pi/6) = 1/sqrt(3) for an angle t in (0, pi/2) whose sine and
\* cosine are proportional to c > 0 and d > 0: 3 c^2 < d^2 (the common factor
\* of c and d is divided out first, to keep the squares small).
TanBelowThreshold(c, d) ==
  LET f == Gcd(c, d)
      c1 == c \div f
      d1 == d \div f
  IN 3 * c1 * c1 < d1 * d1

\* angleDelta = angleB - angleA, plus 2 pi when that is <= 0, is below
\* threshold = pi/6.  With a, b the directions of the two angles the delta is
\* the counter-clockwise turn from a to b, taken as 2 pi when the two angles
\* are equal.
AngleDeltaBelowThreshold(a, b) ==
  /\ Cross(a, b) > 0
  /\ Dot(a, b) > 0
  /\ TanBelowThreshold(Cross(a, b), Dot(a, b))

\* The body of the inner loop with removedEdge set for every pair of distinct
\* edges looked at, removed or not.
SmallAngleStepFlagging(st, v, edges, i) ==
  LET gr == st.g
      edgeA == edges[i]
      edgeB == edges[(i % Len(edges)) + 1]
  IN IF ~Contains(gr.vedges[v], edgeA) \/ ~Contains(gr.vedges[v], edgeB) THEN st
     ELSE IF edgeA = edgeB THEN st
     ELSE IF ~AngleDeltaBelowThreshold(edgeAngle(gr, v, edgeA), edgeAngle(gr, v, edgeB))
     THEN [st EXCEPT !.removed = TRUE]
     ELSE LET edgeToRemove == IF EdgeLengthSq(gr, edgeA) >= EdgeLengthSq(gr, edgeB)
                              THEN edgeA ELSE edgeB
          IN [g |-> removeEdge(gr, edgeToRemove), removed |-> TRUE]

\* The body of the inner loop for index i of the copy `edges` of vertex.edges.
SmallAngleStep(st, v, edges, i) ==
  LET gr == st.g
      edgeA == edges[i]
      edgeB == edges[(i % Len(edges)) + 1]
  IN IF ~Contains(gr.vedges[v], edgeA) \/ ~Contains(gr.vedges[v], edgeB) THEN st
     ELSE IF edgeA = edgeB THEN st
     ELSE IF ~AngleDeltaBelowThreshold(edgeAngle(gr, v, edgeA), edgeAngle(gr, v, edgeB)) THEN st
     ELSE LET edgeToRemove == IF EdgeLengthSq(gr, edgeA) >= EdgeLengthSq(gr, edgeB)
                              THEN edgeA ELSE edgeB
          IN [g |-> removeEdge(gr, edgeToRemove), removed |-> TRUE]

RECURSIVE SmallAngleInner(_, _, _, _)
SmallAngleInner(st, v, edges, i) ==
  IF i > Len(edges) THEN st
  ELSE SmallAngleInner(SmallAngleStep(st, v, edges, i), v, edges, i + 1)

RECURSIVE SmallAngleOuter(_, _)
SmallAngleOuter(st, k) ==
  IF k > Len(st.g.vertices) THEN st
  ELSE LET v == st.g.vertices[k]
           edges == st.g.vedges[v]
       IN IF Len(edges) < 2 THEN SmallAngleOuter(st, k + 1)
          ELSE SmallAngleOuter(SmallAngleInner(st, v, edges, 1), k + 1)

\* Returns [g |-> the graph afterwards, removed |-> the boolean returned].
removeSmallAngles(gr) == SmallAngleOuter([g |-> gr, removed |-> FALSE], 1)

-----------------------------------------------------------------------------
(* Graph.removeSparseVertices *)

\* First loop: collects the vertices to remove, removing the only edge of a
\* vertex of degree 1 on the way (vertex.edges is read live).
RECURSIVE SparseCollect(_, _)
SparseCollect(st, k) ==
  IF k > Len(st.g.vertices) THEN st
  ELSE LET v == st.g.vertices[k]
           incidentEdges == st.g.vedges[v]
       IN IF Len(incidentEdges) = 0
          THEN SparseCollect([st EXCEPT !.toRemove = Append(@, v)], k + 1)
          ELSE IF Len(incidentEdges) = 1
          THEN SparseCollect([g |-> removeEdge(st.g, incidentEdges[1]),
                              toRemove |-> Append(st.toRemove, v)], k + 1)
          ELSE SparseCollect(st, k + 1)

RECURSIVE RemoveEdgesOf(_, _, _)
RemoveEdgesOf(gr, edges, i) ==
  IF i > Len(edges) THEN gr
  ELSE RemoveEdgesOf(removeEdge(gr, edges[i]), edges, i + 1)

RECURSIVE SparseDrop(_, _, _)
SparseDrop(gr, toRemove, i) ==
  IF i > Len(toRemove) THEN gr
  ELSE LET v == toRemove[i]
           g1 == RemoveEdgesOf(gr, gr.vedges[v], 1)
       IN SparseDrop([g1 EXCEPT !.vertices = RemoveFirst(@, v)], toRemove, i + 1)

\* A variant that reports no removal, so that its loop ends after one pass.
removeSparseVerticesOnePass(gr) ==
  LET st == SparseCollect([g |-> gr, toRemove |-> <<>>], 1)
  IN [g |-> SparseDrop(st.g, st.toRemove, 1), removed |-> FALSE]

\* Returns [g |-> the graph afterwards, removed |-> the boolean returned].
removeSparseVertices(gr) ==
  LET st == SparseCollect([g |-> gr, toRemove |-> <<>>], 1)
  IN IF Len(st.toRemove) = 0 THEN [g |-> gr, removed |-> FALSE]
     ELSE [g |-> SparseDrop(st.g, st.toRemove, 1), removed |-> TRUE]

-----------------------------------------------------------------------------
(* Graph.addRandomVertices, Graph.createEdges *)

\* -1 + padding + (width - 2 padding) * Math.random(), the draw being
\* k/RandLevels, in model units.
RandomCoordinate(k) ==
  -Unit + ExactDiv(PaddingTenths * Unit, 10)
  + ExactDiv((GraphWidth * 10 - 2 * PaddingTenths) * Unit * k, 10 * RandLevels)

AddRandomVertex(gr, draw) ==
  AddVertex(gr, <<RandomCoordinate(draw[1]), RandomCoordinate(draw[2])>>)

AddVertices(gr, draws) == Fold(AddRandomVertex, gr, draws)

\* The candidate edge of the pair of vertices i < j; its key numbers the pair.
CandidateEdge(i, j) == <<((j - 1) * (j - 2)) \div 2 + i, i, j>>

\* vertexPairs before the shuffle.
VertexPairs(n) == {<<i, j>> \in (1..n) \X (1..n) : i < j}

\* The loop over this.edges of createEdges: some existing edge that shares no
\* vertex with the candidate intersects it.
IntersectsExisting(gr, cand) ==
  \E k \in 1..Len(gr.edges) :
    LET existingEdge == gr.edges[k]
    IN /\ ~sharesVertexWithEdge(existingEdge, cand)
       /\ lineSegmentIntersect(gr.pos[Vertex0(cand)], gr.pos[Vertex1(cand)],
                               gr.pos[Vertex0(existingEdge)], gr.pos[Vertex1(existingEdge)])

\* One iteration of the loop over the shuffled pairs.
CreateEdgeStep(gr, pair) ==
  LET candidateEdge == CandidateEdge(pair[1], pair[2])
  IN IF IntersectsExisting(gr, candidateEdge) THEN gr
     ELSE registerEdge(gr, candidateEdge)

-----------------------------------------------------------------------------
(* Graph.normalizeVerticesToGraphSpace, Graph.loadFromSerialized            *)
(*                                                                          *)
(* A GraphSerialized value is [vertices |-> list of <<x, y>>, edges |-> list *)
(* of <<i, j>>].  Coordinates are in model units.  An edge index is a JSON  *)
(* number that need not be an integer: the model holds twice its value, so  *)
(* that 3 stands for 1.5.                                                   *)

MinOf(S) == CHOOSE m \in S : \A x \in S : m <= x

MaxOf(S) == CHOOSE m \in S : \A x \in S : x <= m

\* Math.max(this.width - 2 * this.padding, 0), in model units.
AvailableWidth ==
  LET w == ExactDiv((GraphWidth * 10 - 2 * PaddingTenths) * Unit, 10)
  IN IF w > 0 THEN w ELSE 0

AvailableHeight ==
  LET h == ExactDiv((GraphHeight * 10 - 2 * PaddingTenths) * Unit, 10)
  IN IF h > 0 THEN h ELSE 0

\* A scale factor is the fraction <<numerator, denominator>>; a denominator of
\* 0 is Number.POSITIVE_INFINITY.
AxisScale(available, extent) ==
  IF extent > 0 THEN <<available, extent>> ELSE <<1, 0>>

\* Math.min of two scale factors.
MinScale(a, b) ==
  IF a[2] = 0 THEN b
  ELSE IF b[2] = 0 THEN a
  ELSE IF a[1] * b[2] <= b[1] * a[2] THEN a ELSE b

\* ! Number.isFinite(uniformScale) || uniformScale <= 0
ScaleUnusable(sc) == sc[2] = 0 \/ sc[1] <= 0

\* (x - center) * uniformScale with center = (min + max) * 0.5.
NormalizedCoordinate(x, mn, mx, sc) ==
  ExactDiv((2 * x - (mn + mx)) * sc[1], 2 * sc[2])

normalizeVerticesToGraphSpace(gr) ==
  IF Len(gr.vertices) = 0 THEN gr
  ELSE
    LET vs == Range(gr.vertices)
        xs == {gr.pos[v][1] : v \in vs}
        ys == {gr.pos[v][2] : v \in vs}
        width == MaxOf(xs) - MinOf(xs)
        height == MaxOf(ys) - MinOf(ys)
        uniformScale == MinScale(AxisScale(AvailableWidth, width),
                                 AxisScale(AvailableHeight, height))
        collapsed == [v \in DOMAIN gr.pos |-> IF v \in vs THEN <<0, 0>> ELSE gr.pos[v]]
    IN IF width = 0 /\ height = 0 THEN [gr EXCEPT !.pos = collapsed]
       ELSE IF ScaleUnusable(uniformScale) THEN [gr EXCEPT !.pos = collapsed]
       ELSE [gr EXCEPT !.pos =
               [v \in DOMAIN gr.pos |->
                  IF v \in vs
                  THEN <<NormalizedCoordinate(gr.pos[v][1], MinOf(xs), MaxOf(xs), uniformScale),
                         NormalizedCoordinate(gr.pos[v][2], MinOf(ys), MaxOf(ys), uniformScale)>>
                  ELSE gr.pos[v]]]

\* this.vertices.push(...vertexInstances)
AddVertexInstances(gr, vertices) == Fold(AddVertex, gr, vertices)

\* A variant that clamps a number past the end of the list to its last position.
VertexAtClamped(gr, index2) ==
  IF index2 % 2 = 0 /\ index2 >= 0 /\ Len(gr.vertices) > 0
  THEN IF index2 \div 2 < Len(gr.vertices)
       THEN gr.vertices[(index2 \div 2) + 1]
       ELSE gr.vertices[Len(gr.vertices)]
  ELSE 0

\* this.vertices[index] for a JSON number index (held doubled): the vertex at
\* that position, 0 (undefined) when the number is no position of the list.
VertexAt(gr, index2) ==
  IF index2 % 2 = 0 /\ index2 >= 0 /\ index2 \div 2 < Len(gr.vertices)
  THEN gr.vertices[(index2 \div 2) + 1]
  ELSE 0

\* The body of the loop over data.edges.
LoadEdge(gr, entry) ==
  LET vertex0 == VertexAt(gr, entry[1])
      vertex1 == VertexAt(gr, entry[2])
  IN IF vertex0 = 0 \/ vertex1 = 0 THEN gr
     ELSE registerEdge(gr, <<gr.made + 1, vertex0, vertex1>>)

loadFromSerialized(gr, data) ==
  LET g1 == AddVertexInstances(gr, data.vertices)
      g2 == normalizeVerticesToGraphSpace(g1)
      g3 == Fold(LoadEdge, g2, data.edges)
  IN SortAll(g3)

-----
(* Graph.linkHalfEdgesAroundVertices, Graph.computeFaceArea, Graph.buildFaces *)

\* The half-edge of edge that leaves vertex.
OutgoingOf(vertex, edge) ==
  IF Vertex0(edge) = vertex THEN HalfEdgeFromVertex0(edge) ELSE HalfEdgeFromVertex1(edge)

Outgoing(gr, vertex) ==
  [i \in 1..Len(gr.vedges[vertex]) |-> OutgoingOf(vertex, gr.vedges[vertex][i])]

\* The body of the inner loop: twin.next = prev for current = outgoing[i],
\* i counted from 1.
LinkOutgoing(next, outgoing, i) ==
  LET degree == Len(outgoing)
      current == outgoing[i]
      prev == outgoing[((i - 2 + degree) % degree) + 1]
  IN [next EXCEPT ![Twin(current)] = prev]

\* The body of the loop over this.vertices.
LinkVertex(gr, next, vertex) ==
  LET outgoing == Outgoing(gr, vertex)
  IN IF Len(outgoing) < 2 THEN next
     ELSE Fold(LAMBDA nx, i : LinkOutgoing(nx, outgoing, i), next, UpTo(Len(outgoing)))

\* Every half-edge object the graph can reach: those listed and their twins.
HalfEdgeObjects(gr) ==
  {<<e, s>> : e \in {h[1] : h \in Range(gr.halfEdges)} \cup Range(gr.edges), s \in {0, 1}}

\* halfEdge.next of h; a half-edge that was never linked has next = null.
NextOf(gr, h) == IF h \in DOMAIN gr.next THEN gr.next[h] ELSE Null

\* halfEdge.face of h (0 for null).
FaceOf(gr, h) == IF h \in DOMAIN gr.face THEN gr.face[h] ELSE 0

linkHalfEdgesAroundVertices(gr) ==
  [gr EXCEPT !.next = Fold(LAMBDA nx, vertex : LinkVertex(gr, nx, vertex),
                           [h \in HalfEdgeObjects(gr) |-> NextOf(gr, h)],
                           gr.vertices)]

\* A variant of computeFaceArea that returns the magnitude of the sum.
computeFaceArea2Magnitude(gr, halfEdges) ==
  IF \E i \in 1..Len(halfEdges) : NextOf(gr, halfEdges[i]) = Null THEN 0
  ELSE LET sum == Fold(LAMBDA acc, h : acc + Cross(gr.pos[Origin(h)],
                                                   gr.pos[Origin(NextOf(gr, h))]),
                       0, halfEdges)
       IN IF sum < 0 THEN 0 - sum ELSE sum

\* Twice the value returned by computeFaceArea: the sum of the cross products
\* (0 when a half-edge without next is met).
computeFaceArea2(gr, halfEdges) ==
  IF \E i \in 1..Len(halfEdges) : NextOf(gr, halfEdges[i]) = Null THEN 0
  ELSE Fold(LAMBDA sum, h : sum + Cross(gr.pos[Origin(h)], gr.pos[Origin(NextOf(gr, h))]),
            0, halfEdges)

\* One iteration of the while(current) loop of buildFaces that started at
\* halfEdge; w.done says that the loop has been left.
TraverseStep(gr, halfEdge, w) ==
  IF w.done THEN w
  ELSE IF w.current = Null THEN [w EXCEPT !.done = TRUE]
  ELSE IF Contains(w.halfEdges, w.current)
       THEN [w EXCEPT !.closed = (w.current = halfEdge), !.done = TRUE]
  ELSE IF FaceOf(gr, w.current) # 0
       THEN [w EXCEPT !.closed = FALSE, !.done = TRUE]
  ELSE LET nxt == NextOf(gr, w.current)
       IN [current |-> nxt,
           halfEdges |-> Append(w.halfEdges, w.current),
           closed |-> (nxt = halfEdge),
           done |-> (nxt = halfEdge)]

\* The while(current) loop: every iteration but the last adds a half-edge that
\* was not in traversalSet, so it ends within one iteration per half-edge
\* object and one more.  w.closed is isClosed, w.halfEdges is halfEdgesInFace.
Traverse(gr, halfEdge) ==
  Fold(LAMBDA w, k : TraverseStep(gr, halfEdge, w),
       [current |-> halfEdge, halfEdges |-> <<>>, closed |-> FALSE, done |-> FALSE],
       UpTo(Cardinality(HalfEdgeObjects(gr)) + 1))

\* A variant of the loop body that leaves faceHalfEdge.face unset.
FaceStepUnstamped(st, halfEdge) ==
  IF FaceOf(st.g, halfEdge) # 0 THEN st
  ELSE LET walk == Traverse(st.g, halfEdge)
       IN IF ~walk.closed THEN st
          ELSE IF computeFaceArea2(st.g, walk.halfEdges) <= 0 THEN st
          ELSE [g |-> st.g, faces |-> Append(st.faces, walk.halfEdges)]

\* A variant of the loop body that skips a closed walk only when its area is
\* negative.
FaceStepKeepingFlat(st, halfEdge) ==
  IF FaceOf(st.g, halfEdge) # 0 THEN st
  ELSE LET walk == Traverse(st.g, halfEdge)
       IN IF ~walk.closed THEN st
          ELSE IF computeFaceArea2(st.g, walk.halfEdges) < 0 THEN st
          ELSE LET id == Len(st.faces) + 1
               IN [g |-> [st.g EXCEPT !.face =
                            [h \in DOMAIN @ |->
                               IF Contains(walk.halfEdges, h) THEN id ELSE @[h]]],
                   faces |-> Append(st.faces, walk.halfEdges)]

\* The body of the loop over this.halfEdges; faces is the local list.
FaceStep(st, halfEdge) ==
  IF FaceOf(st.g, halfEdge) # 0 THEN st
  ELSE LET walk == Traverse(st.g, halfEdge)
       IN IF ~walk.closed THEN st
          ELSE IF computeFaceArea2(st.g, walk.halfEdges) <= 0 THEN st
          ELSE LET id == Len(st.faces) + 1
               IN [g |-> [st.g EXCEPT !.face =
                            [h \in DOMAIN @ |->
                               IF Contains(walk.halfEdges, h) THEN id ELSE @[h]]],
                   faces |-> Append(st.faces, walk.halfEdges)]

buildFaces(gr) ==
  LET g1 == linkHalfEdgesAroundVertices(gr)
      g2 == [g1 EXCEPT !.face = [h \in HalfEdgeObjects(g1) |-> FaceOf(g1, h)]]
      st == Fold(FaceStep, [g |-> g2, faces |-> <<>>], g2.halfEdges)
  IN [st.g EXCEPT !.faces = st.faces]

-----------------------------------------------------------------------------
(* Graph.serialize *)

\* vertexIndices.get(vertex): the position of vertex in this.vertices, from 0;
\* -1 stands for undefined.
VertexIndex(gr, vertex) == IndexOf(gr.vertices, vertex) - 1

\* The body of the loop over this.edges; edges is the list being built.
SerializeEdge(gr, edges, edge) ==
  LET index0 == VertexIndex(gr, Vertex0(edge))
      index1 == VertexIndex(gr, Vertex1(edge))
  IN IF index0 = -1 \/ index1 = -1 THEN edges
     ELSE Append(edges, <<2 * index0, 2 * index1>>)

serialize(gr) ==
  [vertices |-> [i \in 1..Len(gr.vertices) |-> gr.pos[gr.vertices[i]]],
   edges |-> Fold(LAMBDA edges, edge : SerializeEdge(gr, edges, edge), <<>>, gr.edges)]

-----------------------------------------------------------------------------
(* GraphFace: pointIsInside, neighboringFaces, shellLayers                  *)
(* A face is its position in graph.faces; gr.faces[f] is face.halfEdges.    *)

\* The body of the loop of pointIsInside: intersections after one half-edge.
CountIntersection(gr, point, intersections, halfEdge) ==
  LET edge == EdgeOf(halfEdge)
      rayDirection == <<1, 0>>
  IN IF rayLineSegmentIntersect(point, rayDirection,
                                gr.pos[Vertex0(edge)], gr.pos[Vertex1(edge)])
     THEN intersections + 1
     ELSE intersections

pointIsInside(gr, f, point) ==
  Fold(LAMBDA n, h : CountIntersection(gr, point, n, h), 0, gr.faces[f]) % 2 = 1

\* A variant of the loop body that collects the neighbors in an array.
AddNeighborRepeating(gr, f, neighbors, halfEdge) ==
  IF FaceOf(gr, halfEdge) # f THEN neighbors
  ELSE LET neighbor == FaceOf(gr, Twin(halfEdge))
       IN IF neighbor # 0 /\ neighbor # f
          THEN Append(neighbors, neighbor)
          ELSE neighbors

\* The body of the loop of neighboringFaces; neighbors is the Set, kept in
\* insertion order.
AddNeighbor(gr, f, neighbors, halfEdge) ==
  IF FaceOf(gr, halfEdge) # f THEN neighbors
  ELSE LET neighbor == FaceOf(gr, Twin(halfEdge))
       IN IF neighbor # 0 /\ neighbor # f /\ ~Contains(neighbors, neighbor)
          THEN Append(neighbors, neighbor)
          ELSE neighbors

neighboringFaces(gr, f) ==
  Fold(LAMBDA ns, h : AddNeighbor(gr, f, ns, h), <<>>, gr.faces[f])

\* A variant of the innermost loop body of shellLayers without the
\* visited.has(neighbor) test.
PushNeighborUnvisited(visited, nextFrontier, neighbor) ==
  IF Contains(nextFrontier, neighbor) THEN nextFrontier
  ELSE Append(nextFrontier, neighbor)

\* The innermost loop body of shellLayers.
PushNeighbor(visited, nextFrontier, neighbor) ==
  IF neighbor \in visited THEN nextFrontier
  ELSE IF Contains(nextFrontier, neighbor) THEN nextFrontier
  ELSE Append(nextFrontier, neighbor)

\* One iteration of while(frontier.length); an empty frontier has ended the
\* loop.
ShellStep(gr, st) ==
  IF st.frontier = <<>> THEN st
  ELSE LET visited == st.visited \cup Range(st.frontier)
           nextFrontier ==
             Fold(LAMBDA nf, face :
                    Fold(LAMBDA nf2, neighbor : PushNeighbor(visited, nf2, neighbor),
                         nf, neighboringFaces(gr, face)),
                  <<>>, st.frontier)
       IN [layers |-> Append(st.layers, st.frontier),
           visited |-> visited,
           frontier |-> nextFrontier]

\* The frontier of an iteration holds faces that were not visited before it,
\* so the loop ends within one iteration per face and one more.
shellLayers(gr, f) ==
  Fold(LAMBDA st, k : ShellStep(gr, st),
       [layers |-> <<>>, visited |-> {}, frontier |-> <<f>>],
       UpTo(Len(gr.faces) + 1)).layers

-----------------------------------------------------------------------------
(* Inputs of Graph.fromSerialized                                           *)

\* Most vertex entries and most edge entries of an input with free indices.
MaxInputVertices == 4

MaxInputEdges == 2

\* Most edges left out of the square lattice.
MaxDropped == 2

\* Lists of length at most n over the finite set S.
RECURSIVE ListsUpTo(_, _)
ListsUpTo(S, n) ==
  IF n = 0 THEN {<<>>}
  ELSE LET shorter == ListsUpTo(S, n - 1)
       IN {<<>>} \cup {<<e>> \o l : e \in S, l \in shorter}

\* The JSON coordinate n, in model units.
Coordinate(n) == n * Unit

GridPoint(i) == <<Coordinate(i % (MaxCoord + 1)), Coordinate(i \div (MaxCoord + 1))>>

GridSize == (MaxCoord + 1) * (MaxCoord + 1)

\* Lists of grid points in non-decreasing order of their number.
PointLists(n) ==
  {[i \in 1..Len(l) |-> GridPoint(l[i])] :
     l \in {m \in ListsUpTo(0..(GridSize - 1), n) :
              \A i \in 1..(Len(m) - 1) : m[i] <= m[i + 1]}}

\* Index numbers (doubled) tried against a list of n vertices: -1, 0, 0.5,
\* the last position n - 1 and the first number past the end, n.
IndexValues(n) == {-2, 0, 1, 2 * n} \cup (IF n > 0 THEN {2 * (n - 1)} ELSE {})

Corner(i) ==
  <<Coordinate(IF i % 2 = 0 THEN MaxCoord ELSE 0),
    Coordinate(IF i % 4 >= 2 THEN MaxCoord ELSE 0)>>

RECURSIVE CornerList(_)
CornerList(n) == IF n = 0 THEN <<>> ELSE Append(CornerList(n - 1), Corner(n))

\* Free indices over the first n corners of the grid.
IngestFor(n) ==
  {[vertices |-> CornerList(n), edges |-> es] :
     es \in ListsUpTo(IndexValues(n) \X IndexValues(n), MaxInputEdges)}

RECURSIVE IngestUpTo(_)
IngestUpTo(n) == IF n = 0 THEN IngestFor(0) ELSE IngestFor(n) \cup IngestUpTo(n - 1)

IngestData == IngestUpTo(MaxInputVertices)

\* The pairs i < j of positions of a list of n vertices, in order, but one.
RECURSIVE PairList(_, _, _)
PairList(n, i, j) ==
  IF i >= n THEN <<>>
  ELSE IF j > n THEN PairList(n, i + 1, i + 2)
  ELSE <<<<2 * (i - 1), 2 * (j - 1)>>>> \o PairList(n, i, j + 1)

Without(s, k) == SubSeq(s, 1, k - 1) \o SubSeq(s, k + 1, Len(s))

\* Any points, joined by no pair of them (k = -1), by every pair (k = 0) or by
\* all pairs but the k-th.
GeoData ==
  {[vertices |-> c[1],
    edges |-> IF c[2] = -1 THEN <<>> ELSE Without(PairList(Len(c[1]), 1, 2), c[2])] :
     c \in {d \in PointLists(MaxInputVertices)
                   \X (-1..((MaxInputVertices * (MaxInputVertices - 1)) \div 2)) :
              d[2] <= (Len(d[1]) * (Len(d[1]) - 1)) \div 2}}

\* The unit edges of the square lattice on the grid, rows first.
LatticeEdges ==
  LET w == MaxCoord + 1
      horizontal == {<<i, i + 1>> : i \in {k \in 0..(GridSize - 1) : k % w < MaxCoord}}
      vertical == {<<i, i + w>> : i \in 0..(GridSize - 1 - w)}
  IN horizontal \cup vertical

Diagonals ==
  LET w == MaxCoord + 1
      cells == {k \in 0..(GridSize - 1 - w) : k % w < MaxCoord}
  IN {<<i, i + w + 1>> : i \in cells} \cup {<<i + 1, i + w>> : i \in cells}

\* The elements of a set of index pairs as an edge list, in increasing order.
RECURSIVE EdgeList(_)
EdgeList(S) ==
  IF S = {} THEN <<>>
  ELSE LET m == CHOOSE p \in S :
                  \A q \in S : p[1] < q[1] \/ (p[1] = q[1] /\ p[2] <= q[2])
       IN <<<<2 * m[1], 2 * m[2]>>>> \o EdgeList(S \ {m})

\* The subsets of S of at most n elements.
RECURSIVE SubsetsUpTo(_, _)
SubsetsUpTo(S, n) ==
  IF n = 0 THEN {{}}
  ELSE LET smaller == SubsetsUpTo(S, n - 1)
       IN smaller \cup {X \cup {e} : X \in smaller, e \in S}

AllGridPoints == [i \in 1..GridSize |-> GridPoint(i - 1)]

\* The square lattice on all grid points with at most MaxDropped edges left
\* out, or whole with one diagonal of a cell added.
GridData ==
  {[vertices |-> AllGridPoints, edges |-> EdgeList(LatticeEdges \ D)] :
     D \in SubsetsUpTo(LatticeEdges, MaxDropped)} \cup
  {[vertices |-> AllGridPoints, edges |-> EdgeList(LatticeEdges \cup {d})] :
     d \in Diagonals}

InputData == IngestData \cup GeoData \cup GridData

-----------------------------------------------------------------------------
(* Constructors and the export / import round trip                          *)

\* new Graph(undefined, data): loadFromSerialized, then buildFaces.
fromSerialized(data) == buildFaces(loadFromSerialized(EmptyGraph, data))

\* The caller holds the data it is about to pass to Graph.fromSerialized.
LoadInit ==
  /\ pc = "new"
  /\ origin = "json"
  /\ g = EmptyGraph
  /\ pending = {}
  /\ input \in InputData
  /\ out = <<>>
  /\ ret = FALSE
  /\ app = <<>>

\* Graph.fromSerialized(data)
FromSerializedCall ==
  /\ pc = "new"
  /\ origin = "json"
  /\ g' = fromSerialized(input)
  /\ pc' = "built"
  /\ UNCHANGED <<origin, pending, input, out, ret, app>>

\* The end of the constructor after generateRandomGraph: this.buildFaces().
BuildFacesCall ==
  /\ pc = "generated"
  /\ g' = buildFaces(g)
  /\ pc' = "built"
  /\ UNCHANGED <<origin, pending, input, out, ret, app>>

\* graph.serialize() of the constructed graph.
SerializeCall ==
  /\ pc = "built"
  /\ out' = serialize(g)
  /\ pc' = "exported"
  /\ UNCHANGED <<origin, g, pending, input, ret, app>>

\* Graph.fromSerialized of the value just exported.
ReimportCall ==
  /\ pc = "exported"
  /\ input' = out
  /\ g' = fromSerialized(out)
  /\ pc' = "reimported"
  /\ UNCHANGED <<origin, pending, out, ret, app>>

\* graph.serialize() of the re-imported graph.
ReexportCall ==
  /\ pc = "reimported"
  /\ out' = serialize(g)
  /\ pc' = "reexported"
  /\ UNCHANGED <<origin, g, pending, input, ret, app>>

-----------------------------------------------------------------------------
(* Random generation, step by step: Graph.generateRandomGraph               *)

\* The draws of addRandomVertices: one pair of Math.random() results per
\* vertex.  The vertices are drawn in increasing order of (x, y), so that a
\* set of positions is explored once.
DrawIndex(d) == d[1] * RandLevels + d[2]

Draws == (0..(RandLevels - 1)) \X (0..(RandLevels - 1))

DrawSeqs ==
  {ds \in [1..VertexCount -> Draws] :
     \A i \in 1..(VertexCount - 1) : DrawIndex(ds[i]) < DrawIndex(ds[i + 1])}

GenInit ==
  /\ pc = "new"
  /\ origin = "random"
  /\ g = EmptyGraph
  /\ pending = {}
  /\ input = <<>>
  /\ out = <<>>
  /\ ret = FALSE
  /\ app = <<>>

\* this.addRandomVertices(vertexCount), and the enumeration of the pairs that
\* createEdges shuffles.
AddRandomVertices ==
  /\ pc = "new"
  /\ origin = "random"
  /\ \E ds \in DrawSeqs : g' = AddVertices(EmptyGraph, ds)
  /\ pending' = VertexPairs(VertexCount)
  /\ pc' = "createEdges"
  /\ UNCHANGED <<origin, input, out, ret, app>>

\* One iteration of createEdges over the shuffled pairs: shuffle makes every
\* order possible, so the next pair is any pair not yet visited.
CreateEdge ==
  /\ pc = "createEdges"
  /\ \E pair \in pending :
       /\ g' = CreateEdgeStep(g, pair)
       /\ pending' = pending \ {pair}
  /\ UNCHANGED <<pc, origin, input, out, ret, app>>

\* createEdges has visited every pair; every vertex sorts its edges.
SortEdges ==
  /\ pc = "createEdges"
  /\ pending = {}
  /\ g' = SortAll(g)
  /\ pc' = "angles"
  /\ UNCHANGED <<origin, pending, input, out, ret, app>>

\* One call of removeSmallAngles(Math.PI / 6) in the first while(true) loop.
RemoveSmallAnglesCall ==
  /\ pc = "angles"
  /\ LET r == removeSmallAngles(g)
     IN /\ g' = r.g
        /\ ret' = r.removed
        /\ pc' = IF r.removed THEN "angles" ELSE "sparse"
  /\ UNCHANGED <<origin, pending, input, out, app>>

\* One call of removeSparseVertices() in the second while(true) loop.
RemoveSparseVerticesCall ==
  /\ pc = "sparse"
  /\ LET r == removeSparseVertices(g)
     IN /\ g' = r.g
        /\ ret' = r.removed
        /\ pc' = IF r.removed THEN "sparse" ELSE "generated"
  /\ UNCHANGED <<origin, pending, input, out, app>>

GenNext ==
  \/ AddRandomVertices
  \/ CreateEdge
  \/ SortEdges
  \/ RemoveSmallAnglesCall
  \/ RemoveSparseVerticesCall

SpecGen == GenInit /\ [][GenNext]_vars

-----------------------------------------------------------------------------
(* Geometry the claims are stated in, independent of the code's predicates  *)

Sign(n) == IF n > 0 THEN 1 ELSE IF n < 0 THEN -1 ELSE 0

\* p lies on the closed segment from a to b.
OnSegment(p, a, b) ==
  /\ Cross(Sub(b, a), Sub(p, a)) = 0
  /\ Dot(Sub(p, a), Sub(p, b)) <= 0

\* The closed segments a0 a1 and b0 b1 have a common point.
SegmentsMeet(a0, a1, b0, b1) ==
  \/ /\ Sign(Cross(Sub(a1, a0), Sub(b0, a0))) * Sign(Cross(Sub(a1, a0), Sub(b1, a0))) < 0
     /\ Sign(Cross(Sub(b1, b0), Sub(a0, b0))) * Sign(Cross(Sub(b1, b0), Sub(a1, b0))) < 0
  \/ OnSegment(b0, a0, a1)
  \/ OnSegment(b1, a0, a1)
  \/ OnSegment(a0, b0, b1)
  \/ OnSegment(a1, b0, b1)

EdgeVector(gr, e) == Sub(gr.pos[Vertex1(e)], gr.pos[Vertex0(e)])

OtherEnd(e, v) == IF Vertex0(e) = v THEN Vertex1(e) ELSE Vertex0(e)

\* Edges e and f have a common point that is not an endpoint they share: they
\* meet without sharing a vertex, or they leave a shared vertex in the same
\* direction (and so overlap along the shorter one).
MeetElsewhere(gr, e, f) ==
  IF ~sharesVertexWithEdge(e, f)
  THEN SegmentsMeet(gr.pos[Vertex0(e)], gr.pos[Vertex1(e)],
                    gr.pos[Vertex0(f)], gr.pos[Vertex1(f)])
  ELSE \E v \in {Vertex0(e), Vertex1(e)} \cap {Vertex0(f), Vertex1(f)} :
         LET a == Sub(gr.pos[OtherEnd(e, v)], gr.pos[v])
             b == Sub(gr.pos[OtherEnd(f, v)], gr.pos[v])
         IN Cross(a, b) = 0 /\ Dot(a, b) > 0

Parallel(gr, e, f) == Cross(EdgeVector(gr, e), EdgeVector(gr, f)) = 0

\* The counter-clockwise turn from direction a to direction b, in [0, 2 pi),
\* is below 30 degrees.
TurnBelow30(a, b) ==
  /\ Cross(a, b) >= 0
  /\ Dot(a, b) > 0
  /\ LET f == Gcd(Cross(a, b), Dot(a, b))
     IN 3 * (Cross(a, b) \div f) * (Cross(a, b) \div f)
          < (Dot(a, b) \div f) * (Dot(a, b) \div f)

\* Number of entries of graph.edges incident to v.
Degree(gr, v) ==
  Cardinality({k \in 1..Len(gr.edges) : v \in {Vertex0(gr.edges[k]), Vertex1(gr.edges[k])}})

-----------------------------------------------------------------------------
(* Claims on random generation *)

\* C1 (as stated): in a generated graph no two edges have a common point other
\* than an endpoint they share, whatever the positions and the shuffle.
C1_NoIntersectionAtAll ==
  pc = "generated" =>
    \A i, j \in 1..Len(g.edges) :
      i < j => ~MeetElsewhere(g, g.edges[i], g.edges[j])

\* C1 (amended): in a generated graph no two edges that are not parallel have
\* a common point other than an endpoint they share; only edges lying on one
\* line may overlap.
C1_NoCrossing ==
  pc = "generated" =>
    \A i, j \in 1..Len(g.edges) :
      (i < j /\ ~Parallel(g, g.edges[i], g.edges[j]))
        => ~MeetElsewhere(g, g.edges[i], g.edges[j])

\* C1 witness: a generated graph that kept two edges without a common vertex
\* and lacks a pair of its vertices because the pair crosses a kept edge.
C1_Witness ==
  /\ pc = "generated"
  /\ \E i, j \in 1..Len(g.edges) : ~sharesVertexWithEdge(g.edges[i], g.edges[j])
  /\ \E a, b \in Range(g.vertices) :
       /\ a < b
       /\ ~Contains(g.edges, CandidateEdge(a, b))
       /\ \E k \in 1..Len(g.edges) :
            /\ ~sharesVertexWithEdge(g.edges[k], CandidateEdge(a, b))
            /\ ~Parallel(g, g.edges[k], CandidateEdge(a, b))
            /\ SegmentsMeet(g.pos[a], g.pos[b],
                            g.pos[Vertex0(g.edges[k])], g.pos[Vertex1(g.edges[k])])

\* C2: after generateRandomGraph every remaining vertex has at least two
\* incident edges, in its own list and in graph.edges.
C2_NoSparseVertex ==
  pc = "generated" =>
    \A k \in 1..Len(g.vertices) :
      /\ Len(g.vedges[g.vertices[k]]) >= 2
      /\ Degree(g, g.vertices[k]) >= 2

\* C2 witness: generation ended with some vertices removed and others kept.
C2_Witness ==
  /\ pc = "generated"
  /\ Len(g.vertices) > 0
  /\ Len(g.vertices) < VertexCount

\* C3: after generateRandomGraph, at every remaining vertex no two incident
\* edges are less than 30 degrees apart (a pair of edges less than 30 degrees
\* apart bounds a sector in which some circularly adjacent pair is at least as
\* close).
C3_MinAngle ==
  pc = "generated" =>
    \A k \in 1..Len(g.vertices) :
      LET v == g.vertices[k]
          es == g.vedges[v]
      IN \A i, j \in 1..Len(es) :
           i # j => ~TurnBelow30(edgeAngle(g, v, es[i]), edgeAngle(g, v, es[j]))

\* What the code does ensure: two incident edges less than 30 degrees apart
\* point in exactly the same direction.
C3_OnlyEqualDirections ==
  pc = "generated" =>
    \A k \in 1..Len(g.vertices) :
      LET v == g.vertices[k]
          es == g.vedges[v]
      IN \A i, j \in 1..Len(es) :
           (i # j /\ TurnBelow30(edgeAngle(g, v, es[i]), edgeAngle(g, v, es[j])))
             => Cross(edgeAngle(g, v, es[i]), edgeAngle(g, v, es[j])) = 0

-----------------------------------------------------------------------------
(* Claims about constructed graphs                                          *)

\* The constructor has returned: g is a constructed graph.
Constructed == pc \in {"built", "exported", "reimported", "reexported"}

\* The faces of g whose halfEdges list holds h.
FacesHolding(h) == {f \in 1..Len(g.faces) : Contains(g.faces[f], h)}

Unassigned == {h \in Range(g.halfEdges) : FaceOf(g, h) = 0}

\* C4: after buildFaces, on a generated or a deserialized graph, every
\* half-edge of graph.halfEdges is in the halfEdges list of at most one face
\* and at most once in it; a half-edge has face = F exactly when it is in
\* F.halfEdges; and the half-edges of all faces together with those whose
\* face is null are exactly graph.halfEdges.
C4_HalfEdgePartition ==
  Constructed =>
    /\ \A h \in Range(g.halfEdges) : Cardinality(FacesHolding(h)) <= 1
    /\ \A f \in 1..Len(g.faces) :
         \A i, j \in 1..Len(g.faces[f]) : i # j => g.faces[f][i] # g.faces[f][j]
    /\ \A h \in HalfEdgeObjects(g) :
         \A f \in 1..Len(g.faces) : FaceOf(g, h) = f <=> Contains(g.faces[f], h)
    /\ \A h \in HalfEdgeObjects(g) : FaceOf(g, h) \in 0..Len(g.faces)
    /\ UNION {Range(g.faces[f]) : f \in 1..Len(g.faces)} \cup Unassigned
         = Range(g.halfEdges)

\* A generated graph with two faces and unassigned half-edges around them.
C4_Witness ==
  /\ pc = "built"
  /\ origin = "random"
  /\ Len(g.faces) >= 2
  /\ Unassigned # {}

\* A deserialized graph with a vertex joined to itself, a face and unassigned
\* half-edges.
C4_WitnessLoaded ==
  /\ pc = "built"
  /\ origin = "json"
  /\ Len(g.faces) >= 1
  /\ Unassigned # {}

\* C5: serialize(G), then Graph.fromSerialized, then serialize gives the
\* vertex coordinate list of serialize(G) (same order, same values) and its
\* set of edge index pairs, for every constructed G, whether generated or
\* deserialized.  At "reexported", input is serialize(G) and out the second
\* export.
C5_RoundTrip ==
  pc = "reexported" =>
    /\ out.vertices = input.vertices
    /\ Range(out.edges) = Range(input.edges)

\* The round trip restricted to a G that was itself deserialized.
C5_RoundTripLoaded ==
  (pc = "reexported" /\ origin = "json") =>
    /\ out.vertices = input.vertices
    /\ Range(out.edges) = Range(input.edges)

\* The edge index pairs survive the round trip of any G.
C5_EdgesRoundTrip ==
  pc = "reexported" => Range(out.edges) = Range(input.edges)

\* An index (held doubled) is a position of a list of n vertices.
ValidIndex(index2, n) == index2 % 2 = 0 /\ index2 >= 0 /\ index2 \div 2 < n

ValidEntry(entry) ==
  /\ ValidIndex(entry[1], Len(input.vertices))
  /\ ValidIndex(entry[2], Len(input.vertices))

\* fromSerialized(input) has just returned g.
Ingested == (pc = "built" /\ origin = "json") \/ pc = "reimported"

\* C9: Graph.fromSerialized creates one vertex per entry of the vertices list,
\* in list order, and one edge per entry of the edges list whose two indices
\* are both positions of the vertices list, in list order; an entry with a
\* negative, too large or non-integer index makes no edge and no failure.
C9_TolerantIngestion ==
  Ingested =>
    /\ Len(g.vertices) = Len(input.vertices)
    /\ \A i \in 1..Len(g.vertices) : g.vertices[i] = i
    /\ \A i, j \in 1..Len(g.vertices) :
         /\ input.vertices[i][1] <= input.vertices[j][1] => g.pos[i][1] <= g.pos[j][1]
         /\ input.vertices[i][2] <= input.vertices[j][2] => g.pos[i][2] <= g.pos[j][2]
    /\ [k \in 1..Len(g.edges) |->
          <<2 * (Vertex0(g.edges[k]) - 1), 2 * (Vertex1(g.edges[k]) - 1)>>]
         = SelectSeq(input.edges, ValidEntry)

\* An input with an entry that names two positions and an entry that does not.
C9_Witness ==
  /\ pc = "built"
  /\ origin = "json"
  /\ \E k \in 1..Len(input.edges) : ValidEntry(input.edges[k])
  /\ \E k \in 1..Len(input.edges) : ~ValidEntry(input.edges[k])
  /\ Len(g.edges) < Len(input.edges)

\* vertices = [[0,0]] with an edge entry [0,1]: 1 vertex and 0 edges.
C9_WitnessExample ==
  /\ pc = "built"
  /\ input = [vertices |-> <<<<0, 0>>>>, edges |-> <<<<0, 2>>>>]
  /\ Len(g.vertices) = 1
  /\ Len(g.edges) = 0

-----------------------------------------------------------------------------
(* Specifications of construction by deserialization and of both origins    *)

LoadNext ==
  \/ FromSerializedCall
  \/ SerializeCall
  \/ ReimportCall
  \/ ReexportCall

SpecLoad == LoadInit /\ [][LoadNext]_vars

GraphInit == GenInit \/ LoadInit

GraphNext ==
  \/ AddRandomVertices
  \/ CreateEdge
  \/ SortEdges
  \/ RemoveSmallAnglesCall
  \/ RemoveSparseVerticesCall
  \/ BuildFacesCall
  \/ FromSerializedCall
  \/ SerializeCall
  \/ ReimportCall
  \/ ReexportCall

SpecGraph == GraphInit /\ [][GraphNext]_vars

-----------------------------------------------------------------------------
(* Queries on the faces of a deserialized graph                             *)

\* Query coordinates -1.05, -0.75, -0.15, 0.15, 0.75, 1.05 in graph space.
QueryCoordinates == {ExactDiv(3 * Unit * k, 20) : k \in {-7, -5, -1, 1, 5, 7}}

QueryPoints == QueryCoordinates \X QueryCoordinates

\* face.shellLayers() for a face of the graph; out records the call, ret the
\* value returned.
ShellLayersCall ==
  /\ pc = "built"
  /\ \E f \in 1..Len(g.faces) :
       /\ out' = [face |-> f]
       /\ ret' = shellLayers(g, f)
  /\ pc' = "layered"
  /\ UNCHANGED <<origin, g, pending, input, app>>

\* face.pointIsInside(point) for a face of the graph.
PointIsInsideCall ==
  /\ pc = "built"
  /\ \E f \in 1..Len(g.faces), point \in QueryPoints :
       /\ out' = [face |-> f, point |-> point]
       /\ ret' = pointIsInside(g, f, point)
  /\ pc' = "located"
  /\ UNCHANGED <<origin, g, pending, input, app>>

QueryNext ==
  \/ FromSerializedCall
  \/ ShellLayersCall
  \/ PointIsInsideCall

SpecQuery == LoadInit /\ [][QueryNext]_vars

-----------------------------------------------------------------------------
(* Claims about the face queries                                            *)

NeighborSet(f) == Range(neighboringFaces(g, f))

\* The faces within k steps of neighboringFaces from f.
RECURSIVE Within(_, _)
Within(f, k) ==
  IF k = 0 THEN {f}
  ELSE LET nearer == Within(f, k - 1)
       IN nearer \cup UNION {NeighborSet(x) : x \in nearer}

\* The faces at shortest adjacency distance k from f.
AtDistance(f, k) == IF k = 0 THEN {f} ELSE Within(f, k) \ Within(f, k - 1)

\* C6: shellLayers on a face F returns the breadth-first distance classes of
\* F: layer 0 is [F], no layer is empty, no face is listed twice, layer k
\* holds exactly the faces at shortest adjacency distance k from F, and a face
\* that cannot be reached from F is in no layer.
C6_ShellLayersAreDistanceClasses ==
  pc = "layered" =>
    LET f == out.face
        layers == ret
    IN /\ Len(layers) >= 1
       /\ layers[1] = <<f>>
       /\ \A k \in 1..Len(layers) :
            /\ layers[k] # <<>>
            /\ Range(layers[k]) = AtDistance(f, k - 1)
            /\ \A i, j \in 1..Len(layers[k]) : i # j => layers[k][i] # layers[k][j]
       /\ \A k, l \in 1..Len(layers) : k # l => Range(layers[k]) \cap Range(layers[l]) = {}
       /\ UNION {Range(layers[k]) : k \in 1..Len(layers)} = Within(f, Len(g.faces))

\* The four square faces of the whole lattice: layers of 1, 2 and 1 faces
\* from a corner face.
C6_Witness ==
  /\ pc = "layered"
  /\ Len(g.faces) = 4
  /\ \A f \in 1..4 : Len(g.faces[f]) = 4
  /\ Len(ret) = 3
  /\ Len(ret[1]) = 1
  /\ Len(ret[2]) = 2
  /\ Len(ret[3]) = 1

\* The corners of face f in boundary order.
Corners(f) == [i \in 1..Len(g.faces[f]) |-> g.pos[Origin(g.faces[f][i])]]

\* The quadrant around the origin of a vector other than <<0, 0>>.
Quadrant(v) ==
  IF v[1] > 0 /\ v[2] >= 0 THEN 0
  ELSE IF v[1] <= 0 /\ v[2] > 0 THEN 1
  ELSE IF v[1] < 0 /\ v[2] <= 0 THEN 2
  ELSE 3

\* Quarter turns around point made by the side from a to b (point not on it).
QuarterTurns(point, a, b) ==
  LET va == Sub(a, point)
      vb == Sub(b, point)
      d == (Quadrant(vb) - Quadrant(va) + 4) % 4
  IN IF d = 0 THEN 0
     ELSE IF d = 1 THEN 1
     ELSE IF d = 3 THEN -1
     ELSE 2 * Sign(Cross(va, vb))

RECURSIVE TurnSum(_, _, _)
TurnSum(point, corners, i) ==
  IF i > Len(corners) THEN 0
  ELSE QuarterTurns(point, corners[i], corners[(i % Len(corners)) + 1])
         + TurnSum(point, corners, i + 1)

\* The winding number of the polygon around point is not 0.
InInterior(point, corners) == TurnSum(point, corners, 1) # 0

OnBoundary(point, corners) ==
  \E i \in 1..Len(corners) : OnSegment(point, corners[i], corners[(i % Len(corners)) + 1])

\* The sides are segments that meet only where consecutive sides share a
\* corner.
SimplePolygon(corners) ==
  LET n == Len(corners)
      a(i) == corners[i]
      b(i) == corners[(i % n) + 1]
  IN /\ n >= 3
     /\ \A i, j \in 1..n : i # j => corners[i] # corners[j]
     /\ \A i, j \in 1..n :
          i < j =>
            IF j = i + 1 THEN ~OnSegment(b(j), a(i), b(i)) /\ ~OnSegment(a(i), a(j), b(j))
            ELSE IF i = 1 /\ j = n THEN ~OnSegment(a(j), a(i), b(i)) /\ ~OnSegment(b(i), a(j), b(j))
            ELSE ~SegmentsMeet(a(i), b(i), a(j), b(j))

\* The ray from point in the +x direction passes through a corner.
RayThroughCorner(point, corners) ==
  \E i \in 1..Len(corners) : corners[i][2] = point[2] /\ corners[i][1] >= point[1]

\* The case of C7: a face bounded by a simple polygon and a point off its
\* boundary whose ray meets no corner.
C7_Case ==
  /\ pc = "located"
  /\ SimplePolygon(Corners(out.face))
  /\ ~OnBoundary(out.point, Corners(out.face))
  /\ ~RayThroughCorner(out.point, Corners(out.face))

\* C7: for a face whose boundary is a simple polygon and a point that is not
\* on the boundary and whose ray in the +x direction passes through no vertex
\* of the face, pointIsInside is true exactly when the point is in the
\* interior of the polygon.
C7_PointIsInsideIsContainment ==
  C7_Case => (ret <=> InInterior(out.point, Corners(out.face)))

\* A point found inside a face of at least four corners.
C7_Witness ==
  /\ C7_Case
  /\ Len(g.faces[out.face]) >= 4
  /\ ret = TRUE

\* A point found outside although the line through it meets the face.
C7_WitnessOutside ==
  /\ C7_Case
  /\ ret = FALSE
  /\ \E i \in 1..Len(Corners(out.face)) : Corners(out.face)[i][2] > out.point[2]
  /\ \E i \in 1..Len(Corners(out.face)) : Corners(out.face)[i][2] < out.point[2]

-----------------------------------------------------------------------------
(* JSON values and parseGraphData (util.ts)                                 *)
(* A JSON value is a tuple that starts with its kind.  An object is held by *)
(* its vertices and edges members, Undefined for a member it does not have. *)

Undefined == <<"undefined">>

JNull == <<"null">>

JBoolean(b) == <<"boolean", b>>

JNumber(n) == <<"number", n>>

JString(s) == <<"string", s>>

JArray(items) == <<"array", items>>

JObject(vertices, edges) == <<"object", vertices, edges>>

\* ! data
Falsy(v) ==
  v \in {Undefined, JNull, JBoolean(FALSE), JNumber(0), JString("")}

\* typeof data
TypeOf(v) ==
  IF v[1] \in {"null", "array", "object"} THEN "object" ELSE v[1]

\* Array.isArray(v)
IsArray(v) == v[1] = "array"

\* record.vertices, record.edges: a member of an object; an array has no such
\* member.
Member(data, name) ==
  IF data[1] = "object"
  THEN IF name = "vertices" THEN data[2] ELSE data[3]
  ELSE Undefined

\* new Error(message); a message is the tuple of its parts, the ${index} of a
\* template being the number itself.
Error(message) == [message |-> message]

\* ! Array.isArray(item) || item.length !== 2
NotAPair(item) == ~IsArray(item) \/ Len(item[2]) # 2

\* typeof x !== "number" || typeof y !== "number"
NotNumbers(item) == TypeOf(item[2][1]) # "number" \/ TypeOf(item[2][2]) # "number"

\* The callback of verticesRaw.map / edgesRaw.map on the item at position
\* index (from 0); st.error is the Error thrown, which ends the map.
MapEntry(kind, pairName, st, item) ==
  IF st.error # Null THEN st
  ELSE LET index == Len(st.list)
       IN IF NotAPair(item)
          THEN [st EXCEPT !.error = Error(<<kind, "at index", index, "must be", pairName>>)]
          ELSE IF NotNumbers(item)
          THEN [st EXCEPT !.error = Error(<<kind, "at index", index, "must contain numbers">>)]
          ELSE [st EXCEPT !.list = Append(@, <<item[2][1][2], item[2][2][2]>>)]

MapEntries(kind, pairName, raw) ==
  Fold(LAMBDA st, item : MapEntry(kind, pairName, st, item),
       [error |-> Null, list |-> <<>>], raw[2])

\* parseGraphData with the edges array mapped before the vertices array.
parseGraphDataEdgesFirst(data) ==
  IF Falsy(data) \/ TypeOf(data) # "object"
  THEN [error |-> Error(<<"JSON must be an object">>), value |-> Null]
  ELSE LET verticesRaw == Member(data, "vertices")
           edgesRaw == Member(data, "edges")
       IN IF ~IsArray(verticesRaw) \/ ~IsArray(edgesRaw)
          THEN [error |-> Error(<<"JSON must include vertices and edges arrays">>),
                value |-> Null]
          ELSE LET edges == MapEntries("Edge", "[i, j]", edgesRaw)
               IN IF edges.error # Null
                  THEN [error |-> edges.error, value |-> Null]
                  ELSE LET vertices == MapEntries("Vertex", "[x, y]", verticesRaw)
                       IN IF vertices.error # Null
                          THEN [error |-> vertices.error, value |-> Null]
                          ELSE [error |-> Null,
                                value |-> [vertices |-> vertices.list, edges |-> edges.list]]

\* parseGraphData(data): error is the Error thrown (Null when it returns) and
\* value the GraphSerialized returned.
parseGraphData(data) ==
  IF Falsy(data) \/ TypeOf(data) # "object"
  THEN [error |-> Error(<<"JSON must be an object">>), value |-> Null]
  ELSE LET verticesRaw == Member(data, "vertices")
           edgesRaw == Member(data, "edges")
       IN IF ~IsArray(verticesRaw) \/ ~IsArray(edgesRaw)
          THEN [error |-> Error(<<"JSON must include vertices and edges arrays">>),
                value |-> Null]
          ELSE LET vertices == MapEntries("Vertex", "[x, y]", verticesRaw)
               IN IF vertices.error # Null
                  THEN [error |-> vertices.error, value |-> Null]
                  ELSE LET edges == MapEntries("Edge", "[i, j]", edgesRaw)
                       IN IF edges.error # Null
                          THEN [error |-> edges.error, value |-> Null]
                          ELSE [error |-> Null,
                                value |-> [vertices |-> vertices.list, edges |-> edges.list]]

-----------------------------------------------------------------------------
(* Documents handed to parseGraphData                                       *)

MaxEntries == 2

\* Entries of a vertices or edges array: a pair of numbers, two entries that
\* are no 2-element array, two pairs that hold something else than numbers.
Entries ==
  { JArray(<<JNumber(0), JNumber(1)>>),
    JNumber(2),
    JArray(<<JNumber(0), JNumber(1), JNumber(2)>>),
    JArray(<<JString("0"), JNumber(1)>>),
    JArray(<<JNumber(0), JNull>>) }

Members ==
  {Undefined, JNull, JNumber(1), JString("a"), JObject(Undefined, Undefined)}
    \cup {JArray(items) : items \in ListsUpTo(Entries, MaxEntries)}

ParseDocs ==
  {JNull, JBoolean(FALSE), JBoolean(TRUE), JNumber(0), JNumber(1), JString(""),
   JString("a"), JArray(<<>>), JArray(<<JArray(<<JNumber(0), JNumber(1)>>)>>)}
    \cup {JObject(vertices, edges) : vertices \in Members, edges \in Members}

ParseInit ==
  /\ pc = "new"
  /\ origin = "document"
  /\ input \in ParseDocs
  /\ g = EmptyGraph
  /\ pending = <<>>
  /\ out = Null
  /\ ret = Null
  /\ app = Null

\* parseGraphData(data)
ParseGraphDataCall ==
  /\ pc = "new"
  /\ origin = "document"
  /\ ret' = parseGraphData(input)
  /\ pc' = "parsed"
  /\ UNCHANGED <<origin, g, pending, input, out, app>>

ParseNext == ParseGraphDataCall

SpecParse == ParseInit /\ [][ParseNext]_vars

-----------------------------------------------------------------------------
(* Claims about parseGraphData                                              *)

\* A 2-element array of numbers.
PairOfNumbers(item) ==
  /\ item[1] = "array"
  /\ Len(item[2]) = 2
  /\ \A i \in 1..2 : item[2][i][1] = "number"

KeyedObject(data) == data[1] = "object"

BothArrays(data) == data[2][1] = "array" /\ data[3][1] = "array"

\* Positions (from 0) of the entries of an array that are no pair of numbers.
Offending(array) ==
  {i - 1 : i \in {j \in 1..Len(array[2]) : ~PairOfNumbers(array[2][j])}}

Least(S) == CHOOSE i \in S : \A j \in S : i <= j

Malformed(data) ==
  \/ ~KeyedObject(data)
  \/ ~BothArrays(data)
  \/ Offending(data[2]) # {}
  \/ Offending(data[3]) # {}

NumberPairs(array) ==
  [i \in 1..Len(array[2]) |-> <<array[2][i][2][1][2], array[2][i][2][2][2]>>]

Raised(kind, index) ==
  /\ ret.error # Null
  /\ ret.error.message[1] = kind
  /\ ret.error.message[3] = index

\* C10: parseGraphData raises an error exactly when the input is malformed:
\* the top-level value is not a keyed object, or vertices or edges is not an
\* array (the error names the two fields), or some entry is not a 2-element
\* array of numbers (the error names Vertex or Edge and the index of the first
\* offending entry, vertex entries being checked before edge entries); for
\* every other input it returns the vertices and edges lists unchanged.
C10_RaisesExactlyWhenMalformed ==
  (pc = "parsed" /\ origin = "document") =>
    /\ (ret.error # Null) <=> Malformed(input)
    /\ (ret.error # Null) <=> (ret.value = Null)
    /\ (KeyedObject(input) /\ ~BothArrays(input)) =>
         ret.error.message = <<"JSON must include vertices and edges arrays">>
    /\ (KeyedObject(input) /\ BothArrays(input) /\ Offending(input[2]) # {}) =>
         Raised("Vertex", Least(Offending(input[2])))
    /\ (KeyedObject(input) /\ BothArrays(input) /\ Offending(input[2]) = {}
          /\ Offending(input[3]) # {}) =>
         Raised("Edge", Least(Offending(input[3])))
    /\ ~Malformed(input) =>
         /\ ret.value.vertices = NumberPairs(input[2])
         /\ ret.value.edges = NumberPairs(input[3])

\* An edge entry and a later vertex entry both offend: the vertex is named.
C10_Witness ==
  /\ pc = "parsed"
  /\ origin = "document"
  /\ KeyedObject(input)
  /\ BothArrays(input)
  /\ Offending(input[2]) = {1}
  /\ Offending(input[3]) = {0, 1}
  /\ Raised("Vertex", 1)

\* Both lists are returned as they were given.
C10_WitnessReturned ==
  /\ pc = "parsed"
  /\ origin = "document"
  /\ ~Malformed(input)
  /\ Len(ret.value.vertices) = MaxEntries
  /\ Len(ret.value.edges) = 1

-----------------------------------------------------------------------------
(* Graph.randomizedWithVertexCount as one call                              *)

\* while(true) { if( ! remove() ) break; }: every call that returns true has
\* removed an edge or a vertex, so the loop has ended within budget calls.
RemoveUntilStable(Remove(_), gr, budget) ==
  Fold(LAMBDA st, i : IF st.removed THEN Remove(st.g) ELSE st,
       [g |-> gr, removed |-> TRUE], UpTo(budget)).g

\* Step applied to a value that has been computed first.
Pipe(v, Step(_)) == IF Evaluated(v) THEN Step(v) ELSE v

\* The calls either pruning loop can make before it has nothing left to remove.
Budget(gr) == Len(gr.vertices) + Len(gr.edges) + 1

\* generateRandomGraph(vertexCount) for the results draws of Math.random() in
\* addRandomVertices and the order shuffled that shuffle gave vertexPairs.
generateRandomGraph(draws, shuffled) ==
  Pipe(Pipe(Pipe(Pipe(AddVertices(EmptyGraph, draws),
                      LAMBDA gr : Fold(CreateEdgeStep, gr, shuffled)),
                 SortAll),
            LAMBDA gr : RemoveUntilStable(removeSmallAngles, gr, Budget(gr))),
       LAMBDA gr : RemoveUntilStable(removeSparseVertices, gr, Budget(gr)))

\* new Graph(vertexCount, undefined): generateRandomGraph, then buildFaces.
randomizedWithVertexCount(draws, shuffled) ==
  Pipe(generateRandomGraph(draws, shuffled), buildFaces)

-----------------------------------------------------------------------------
(* GraphRenderer (graph.ts) and the handlers of App (app.tsx)               *)
(*                                                                          *)
(* app is [renderer, jsonText, jsonError].  The renderer holds its graph,   *)
(* graphObject, which tells the Graph objects apart by the order of their   *)
(* construction, and hoveredFace: Null or <<graph object, position of the   *)
(* face in the faces of that graph>>.                                       *)

\* Most Graph objects made in one run of the application.
MaxGraphObjects == 3

\* new GraphRenderer(graph)
GraphRenderer(gr, object) ==
  [graph |-> gr, graphObject |-> object, hoveredFace |-> Null]

\* setGraph that leaves hoveredFace as it is.
setGraphKeepingHover(renderer, gr, object) ==
  [renderer EXCEPT !.graph = gr, !.graphObject = object]

\* renderer.setGraph(graph)
setGraph(renderer, gr, object) ==
  [renderer EXCEPT !.graph = gr, !.graphObject = object, !.hoveredFace = Null]

\* renderer.clearHoveredFace(): the renderer afterwards and the value returned.
clearHoveredFace(renderer) ==
  IF renderer.hoveredFace = Null
  THEN [renderer |-> renderer, returned |-> FALSE]
  ELSE [renderer |-> [renderer EXCEPT !.hoveredFace = Null], returned |-> TRUE]

\* renderer.unproject(x, y, width, height), in model units.
unproject(x, y, width, height) ==
  <<ExactDiv(x * GraphWidth * Unit, width) - ExactDiv(GraphWidth * Unit, 2),
    ExactDiv((height - y) * GraphHeight * Unit, height) - ExactDiv(GraphHeight * Unit, 2)>>

\* The loop over faces: the first face the point is inside of, or null.
HoveredAt(renderer, point) ==
  LET inside == {f \in 1..Len(renderer.graph.faces) :
                   pointIsInside(renderer.graph, f, point)}
  IN IF inside = {} THEN Null
     ELSE <<renderer.graphObject, CHOOSE f \in inside : \A h \in inside : f <= h>>

\* setHoveredFaceFromScreenPoint that reports a change whenever the surface
\* has a size, whether or not the hovered face is another one.
setHoveredFaceFromScreenPointAlways(renderer, screenX, screenY, width, height) ==
  IF width <= 0 \/ height <= 0
  THEN [renderer |-> renderer, returned |-> FALSE]
  ELSE [renderer |->
          [renderer EXCEPT
             !.hoveredFace = HoveredAt(renderer, unproject(screenX, screenY, width, height))],
        returned |-> TRUE]

\* renderer.setHoveredFaceFromScreenPoint(screenX, screenY, width, height)
setHoveredFaceFromScreenPoint(renderer, screenX, screenY, width, height) ==
  IF width <= 0 \/ height <= 0
  THEN [renderer |-> renderer, returned |-> FALSE]
  ELSE LET hovered == HoveredAt(renderer, unproject(screenX, screenY, width, height))
       IN IF hovered = renderer.hoveredFace
          THEN [renderer |-> renderer, returned |-> FALSE]
          ELSE [renderer |-> [renderer EXCEPT !.hoveredFace = hovered],
                returned |-> TRUE]

\* The JSON value of a GraphSerialized.
ToJson(serialized) ==
  LET Pairs(list) ==
        JArray([i \in 1..Len(list) |->
                  JArray(<<JNumber(list[i][1]), JNumber(list[i][2])>>)])
  IN JObject(Pairs(serialized.vertices), Pairs(serialized.edges))

\* JSON.stringify(value, null, 2): the text that spells the value.
Stringify(value) == <<"json", value>>

\* A text that spells no JSON value, as the empty text.
NotJson == <<"text", "">>

\* JSON.parse(text): the value spelled, or a SyntaxError.
JsonParse(text) ==
  IF text[1] = "json" THEN [error |-> Null, value |-> text[2]]
  ELSE [error |-> Error(<<"Unexpected end of JSON input">>), value |-> Null]

\* updateJsonFromGraph()
updateJsonFromGraph(a) ==
  [a EXCEPT !.jsonText = Stringify(ToJson(serialize(a.renderer.graph)))]

\* handleJsonSubmit with the renderer's change of hoveredFace on a caught
\* error: the hover is cleared as well.
handleJsonSubmitClearing(a) ==
  LET parsed == JsonParse(a.jsonText)
      serialized == IF parsed.error # Null THEN parsed ELSE parseGraphData(parsed.value)
  IN IF serialized.error # Null
     THEN [a EXCEPT !.jsonError = serialized.error.message,
                    !.renderer = clearHoveredFace(a.renderer).renderer]
     ELSE [a EXCEPT
             !.renderer = clearHoveredFace(
                            setGraph(a.renderer, fromSerialized(serialized.value),
                                     a.renderer.graphObject + 1)).renderer,
             !.jsonError = Null]

\* handleJsonSubmit(): the try block up to the first error thrown, then the
\* catch block.
handleJsonSubmit(a) ==
  LET parsed == JsonParse(a.jsonText)
      serialized == IF parsed.error # Null THEN parsed ELSE parseGraphData(parsed.value)
  IN IF serialized.error # Null
     THEN [a EXCEPT !.jsonError = serialized.error.message]
     ELSE [a EXCEPT
             !.renderer = clearHoveredFace(
                            setGraph(a.renderer, fromSerialized(serialized.value),
                                     a.renderer.graphObject + 1)).renderer,
             !.jsonError = Null]

\* handleRandomize(), random being the graph that
\* Graph.randomizedWithVertexCount(DEFAULT_VERTEX_COUNT) returns.
handleRandomize(a, random) ==
  updateJsonFromGraph(
    [a EXCEPT !.renderer = clearHoveredFace(
                             setGraph(a.renderer, random,
                                      a.renderer.graphObject + 1)).renderer])

-----------------------------------------------------------------------------
(* The application: one step per event handled                              *)

\* Results of Math.random() that put the vertices on the corners of the area
\* drawn in or on the spot next to its first corner.
Spots ==
  ({0, RandLevels - 1} \X {0, RandLevels - 1}) \cup {<<1, 1>>}

AppDrawSeqs ==
  {ds \in DrawSeqs : \A i \in 1..VertexCount : ds[i] \in Spots}

\* Results of shuffle(vertexPairs): the pairs in the order of their candidate
\* edges, and in the opposite order.
PairsInOrder ==
  [k \in 1..((VertexCount * (VertexCount - 1)) \div 2) |->
     CHOOSE p \in VertexPairs(VertexCount) : CandidateEdge(p[1], p[2])[1] = k]

Shuffles ==
  {PairsInOrder, [k \in 1..Len(PairsInOrder) |-> PairsInOrder[Len(PairsInOrder) + 1 - k]]}

\* The graphs Graph.randomizedWithVertexCount returns for these results.
RandomGraphs ==
  {randomizedWithVertexCount(draws, shuffled) :
     draws \in AppDrawSeqs, shuffled \in Shuffles}

\* pointermove events as <<relativeX, relativeY, rect.width, rect.height>>: on a
\* canvas of 20 by 20, and on a canvas that has no width or no height.
PointerEvents ==
  {<<x, y, 20, 20>> : x \in {4, 16}, y \in {9, 16}}
    \cup {<<4, 4, 0, 20>>, <<4, 4, 20, 0>>}

\* Graph data typed into the textarea: the whole square lattice, and one
\* vertex with an edge to a vertex that is not there.
TypedData ==
  { [vertices |-> AllGridPoints, edges |-> EdgeList(LatticeEdges)],
    [vertices |-> CornerList(1), edges |-> <<<<0, 2>>>>] }

\* Other JSON values typed into the textarea.
TypedValues ==
  { JNull,
    JObject(JArray(<<>>), Undefined),
    JObject(JArray(<<JArray(<<JNumber(0), JNumber(Unit)>>), JNumber(2)>>), JArray(<<>>)),
    JObject(JArray(<<JArray(<<JNumber(0), JNumber(Unit)>>)>>),
            JArray(<<JArray(<<JNumber(0), JNull>>)>>)) }

TypedTexts ==
  {NotJson} \cup {Stringify(value) : value \in TypedValues}
            \cup {Stringify(ToJson(data)) : data \in TypedData}

\* The application once mounted: the renderer made with a random graph, and
\* the effect that runs updateJsonFromGraph().
AppInit ==
  /\ pc = "idle"
  /\ origin = "app"
  /\ g = EmptyGraph
  /\ pending = {}
  /\ input = <<>>
  /\ out = [handler |-> "App", errorShown |-> FALSE]
  /\ ret = FALSE
  /\ \E random \in RandomGraphs :
       app = updateJsonFromGraph(
               [renderer |-> GraphRenderer(random, 1),
                jsonText |-> NotJson,
                jsonError |-> Null])

\* What out records of a handler: its name and whether a jsonError was shown
\* when it started.
Handled(handler) == [handler |-> handler, errorShown |-> app.jsonError # Null]

\* handlePointerMove(event)
HandlePointerMove ==
  /\ origin = "app"
  /\ \E e \in PointerEvents :
       LET r == setHoveredFaceFromScreenPoint(app.renderer, e[1], e[2], e[3], e[4])
       IN /\ app' = [app EXCEPT !.renderer = r.renderer]
          /\ ret' = r.returned
  /\ out' = Handled("handlePointerMove")
  /\ UNCHANGED <<pc, origin, g, pending, input>>

\* handlePointerLeave()
HandlePointerLeave ==
  /\ origin = "app"
  /\ LET r == clearHoveredFace(app.renderer)
     IN /\ app' = [app EXCEPT !.renderer = r.renderer]
        /\ ret' = r.returned
  /\ out' = Handled("handlePointerLeave")
  /\ UNCHANGED <<pc, origin, g, pending, input>>

\* onChange of the textarea: setJsonText(event.target.value)
SetJsonText ==
  /\ origin = "app"
  /\ \E text \in TypedTexts \ {app.jsonText} :
       app' = [app EXCEPT !.jsonText = text]
  /\ out' = Handled("setJsonText")
  /\ UNCHANGED <<pc, origin, g, pending, input, ret>>

\* handleJsonSubmit()
HandleJsonSubmit ==
  /\ origin = "app"
  /\ handleJsonSubmit(app).renderer.graphObject <= MaxGraphObjects
  /\ app' = handleJsonSubmit(app)
  /\ out' = Handled("handleJsonSubmit")
  /\ UNCHANGED <<pc, origin, g, pending, input, ret>>

\* handleRandomize()
HandleRandomize ==
  /\ origin = "app"
  /\ app.renderer.graphObject < MaxGraphObjects
  /\ \E random \in RandomGraphs :
       app' = handleRandomize(app, random)
  /\ out' = Handled("handleRandomize")
  /\ UNCHANGED <<pc, origin, g, pending, input, ret>>

AppNext ==
  \/ HandlePointerMove
  \/ HandlePointerLeave
  \/ SetJsonText
  \/ HandleJsonSubmit
  \/ HandleRandomize

SpecApp == AppInit /\ [][AppNext]_vars

-----------------------------------------------------------------------------
(* Claims about the JSON submission workflow                                *)

\* The text is no JSON, or the value it spells is malformed graph data.
Rejected(text) == text[1] # "json" \/ Malformed(text[2])

\* The graph data a text that is not rejected spells.
Spelled(text) ==
  [vertices |-> NumberPairs(text[2][2]), edges |-> NumberPairs(text[2][3])]

\* What a step of handleJsonSubmit does to the application.
SubmitStep ==
  (out'.handler = "handleJsonSubmit") =>
    IF Rejected(app.jsonText)
    THEN /\ app'.renderer = app.renderer
         /\ app'.jsonText = app.jsonText
         /\ app'.jsonError # Null
    ELSE /\ app'.renderer.graph = fromSerialized(Spelled(app.jsonText))
         /\ app'.renderer.graphObject # app.renderer.graphObject
         /\ app'.renderer.hoveredFace = Null
         /\ app'.jsonError = Null

\* C8: when handleJsonSubmit fails at JSON parsing or at parseGraphData, the
\* renderer's graph and hoveredFace are what they were before the submission
\* and the only effect is that the error message is recorded; a valid
\* submission, also one after a failure, replaces the graph.
C8_FailedSubmitKeepsRenderer == [][SubmitStep]_vars

\* A submission has just failed while a face of the graph was hovered.
C8_Witness ==
  /\ origin = "app"
  /\ out.handler = "handleJsonSubmit"
  /\ Rejected(app.jsonText)
  /\ app.jsonError # Null
  /\ app.renderer.hoveredFace # Null
  /\ app.renderer.hoveredFace[1] = app.renderer.graphObject

\* A valid submission has just replaced the graph while the error of an
\* earlier submission was shown.
C8_WitnessRecovered ==
  /\ origin = "app"
  /\ out.handler = "handleJsonSubmit"
  /\ out.errorShown
  /\ app.jsonError = Null
  /\ app.renderer.graphObject > 1
  /\ Len(app.renderer.graph.faces) > 1

-----------------------------------------------------------------------------
(* The renderer alone: its methods called in any order                      *)

\* Graphs handed to the renderer: random ones and deserialized ones.
RendererGraphs == RandomGraphs \cup {fromSerialized(data) : data \in TypedData}

RendererInit ==
  /\ pc = "idle"
  /\ origin = "renderer"
  /\ g = EmptyGraph
  /\ pending = {}
  /\ input = <<>>
  /\ out = [call |-> "GraphRenderer", args |-> <<>>]
  /\ ret = FALSE
  /\ \E gr \in RendererGraphs :
       app = [renderer |-> GraphRenderer(gr, 1), jsonText |-> NotJson, jsonError |-> Null]

\* renderer.setGraph(graph) with a Graph made for it
SetGraphCall ==
  /\ origin = "renderer"
  /\ app.renderer.graphObject < MaxGraphObjects
  /\ \E gr \in RendererGraphs :
       app' = [app EXCEPT !.renderer = setGraph(@, gr, @.graphObject + 1)]
  /\ out' = [call |-> "setGraph", args |-> <<>>]
  /\ UNCHANGED <<pc, origin, g, pending, input, ret>>

\* renderer.setHoveredFaceFromScreenPoint(screenX, screenY, width, height)
SetHoveredFaceFromScreenPointCall ==
  /\ origin = "renderer"
  /\ \E e \in PointerEvents :
       LET r == setHoveredFaceFromScreenPoint(app.renderer, e[1], e[2], e[3], e[4])
       IN /\ app' = [app EXCEPT !.renderer = r.renderer]
          /\ ret' = r.returned
          /\ out' = [call |-> "setHoveredFaceFromScreenPoint", args |-> e]
  /\ UNCHANGED <<pc, origin, g, pending, input>>

\* renderer.clearHoveredFace()
ClearHoveredFaceCall ==
  /\ origin = "renderer"
  /\ LET r == clearHoveredFace(app.renderer)
     IN /\ app' = [app EXCEPT !.renderer = r.renderer]
        /\ ret' = r.returned
  /\ out' = [call |-> "clearHoveredFace", args |-> <<>>]
  /\ UNCHANGED <<pc, origin, g, pending, input>>

RendererNext ==
  \/ SetGraphCall
  \/ SetHoveredFaceFromScreenPointCall
  \/ ClearHoveredFaceCall

SpecRenderer == RendererInit /\ [][RendererNext]_vars

-----------------------------------------------------------------------------
(* Claims about the renderer                                                *)

HoverCalls == {"setHoveredFaceFromScreenPoint", "clearHoveredFace"}

\* What a step of one of the two hover calls returns and changes.
HoverStep ==
  (out'.call \in HoverCalls) =>
    /\ (ret' = TRUE) <=> (app'.renderer.hoveredFace # app.renderer.hoveredFace)
    /\ ret' \in BOOLEAN
    /\ app'.renderer.graph = app.renderer.graph
    /\ app'.renderer.graphObject = app.renderer.graphObject
    /\ (out'.call = "setHoveredFaceFromScreenPoint"
          /\ (out'.args[3] <= 0 \/ out'.args[4] <= 0)) =>
         (ret' = FALSE /\ app' = app)
    /\ (out'.call = "setHoveredFaceFromScreenPoint" /\ out' = out) =>
         (ret' = FALSE /\ app' = app)
    /\ (out'.call = "clearHoveredFace" /\ app.renderer.hoveredFace = Null) =>
         (ret' = FALSE /\ app' = app)

\* C11: whatever the sequence of setGraph, setHoveredFaceFromScreenPoint and
\* clearHoveredFace calls, the two hover calls return true exactly when
\* hoveredFace after the call differs from hoveredFace before it; a call with
\* a non-positive width or height, a repeated hover and a clear with nothing
\* hovered return false and change nothing.
C11_ReturnsWhetherHoverChanged == [][HoverStep]_vars

\* The same hover has just been repeated over a face: false, face kept.
C11_Witness ==
  /\ origin = "renderer"
  /\ out.call = "setHoveredFaceFromScreenPoint"
  /\ out.args[3] > 0
  /\ ret = FALSE
  /\ app.renderer.hoveredFace # Null
  /\ app.renderer.graphObject > 1

\* A clear has just removed the hover and returned true.
C11_WitnessCleared ==
  /\ origin = "renderer"
  /\ out.call = "clearHoveredFace"
  /\ ret = TRUE
  /\ app.renderer.hoveredFace = Null

\* C18: whatever the interleaving of setGraph, setHoveredFaceFromScreenPoint
\* and clearHoveredFace, hoveredFace is null or a face of the renderer's
\* current graph, never a face of a graph that has been replaced.
C18_HoveredFaceOfCurrentGraph ==
  (origin = "renderer") =>
    \/ app.renderer.hoveredFace = Null
    \/ /\ app.renderer.hoveredFace[1] = app.renderer.graphObject
       /\ app.renderer.hoveredFace[2] \in 1..Len(app.renderer.graph.faces)

\* A face of a graph that replaced another one is hovered.
C18_Witness ==
  /\ origin = "renderer"
  /\ out.call = "setHoveredFaceFromScreenPoint"
  /\ app.renderer.graphObject > 1
  /\ app.renderer.hoveredFace # Null
  /\ app.renderer.hoveredFace[1] = app.renderer.graphObject

-----------------------------------------------------------------------------
(* Claims about the pruning loops of generateRandomGraph                    *)

\* generateRandomGraph at the first pruning loop, for the results of
\* Math.random() and the two orders of the shuffled pairs.
AtPruning ==
  {Pipe(Pipe(AddVertices(EmptyGraph, draws),
             LAMBDA gr : Fold(CreateEdgeStep, gr, shuffled)),
        SortAll) : draws \in DrawSeqs, shuffled \in Shuffles}

\* The graphs that n calls of Remove or fewer make of the graphs of S.
RECURSIVE Reach(_, _, _)
Reach(Remove(_), S, n) ==
  IF n = 0 THEN S
  ELSE Reach(Remove, S \cup {Remove(gr).g : gr \in S}, n - 1)

\* The graphs the first loop and the second loop can be called on, and what
\* removeSmallAngles and removeSparseVertices return for each of them.
AnglesGraphs ==
  Reach(removeSmallAngles, AtPruning, (VertexCount * (VertexCount - 1)) \div 2 + 1)

SparseGraphs == Reach(removeSparseVertices, AnglesGraphs, VertexCount + 1)

RemoveSmallAnglesOf == [gr \in AnglesGraphs |-> removeSmallAngles(gr)]

RemoveSparseVerticesOf == [gr \in SparseGraphs |-> removeSparseVertices(gr)]

PruneInit ==
  /\ pc = "angles"
  /\ origin = "random"
  /\ g \in AtPruning
  /\ pending = {}
  /\ input = <<>>
  /\ out = <<>>
  /\ ret = FALSE
  /\ app = <<>>

\* One call of removeSmallAngles(Math.PI / 6) in the first while(true) loop.
PruneSmallAngles ==
  /\ pc = "angles"
  /\ g' = RemoveSmallAnglesOf[g].g
  /\ ret' = RemoveSmallAnglesOf[g].removed
  /\ pc' = IF RemoveSmallAnglesOf[g].removed THEN "angles" ELSE "sparse"
  /\ UNCHANGED <<origin, pending, input, out, app>>

\* One call of removeSparseVertices() in the second while(true) loop.
PruneSparseVertices ==
  /\ pc = "sparse"
  /\ g' = RemoveSparseVerticesOf[g].g
  /\ ret' = RemoveSparseVerticesOf[g].removed
  /\ pc' = IF RemoveSparseVerticesOf[g].removed THEN "sparse" ELSE "generated"
  /\ UNCHANGED <<origin, pending, input, out, app>>

PruneNext ==
  \/ PruneSmallAngles
  \/ PruneSparseVertices

\* The constructor runs on: a call that can be made is made.
SpecPrune == PruneInit /\ [][PruneNext]_vars /\ WF_vars(PruneNext)

\* What one call made by either loop returns and does.
PruneStep ==
  /\ (pc = "angles") =>
       IF ret'
       THEN Len(g'.edges) < Len(g.edges) /\ pc' = "angles"
       ELSE g' = g /\ pc' = "sparse"
  /\ (pc = "sparse") =>
       IF ret'
       THEN Len(g'.vertices) < Len(g.vertices) /\ pc' = "sparse"
       ELSE g' = g /\ pc' = "generated"

\* C12: the two pruning loops of generateRandomGraph terminate: a call of
\* removeSmallAngles that returns true has strictly decreased the number of
\* edges, a call of removeSparseVertices that returns true has strictly
\* decreased the number of vertices, a call that removes nothing returns
\* false and ends its loop, and generateRandomGraph reaches its end.
C12_PruningLoopsTerminate ==
  /\ [][PruneStep]_vars
  /\ <>(pc = "generated")

\* A call of removeSmallAngles has just returned true and the loop goes on.
C12_Witness ==
  /\ origin = "random"
  /\ pc = "angles"
  /\ ret = TRUE
  /\ Len(g.edges) > 0

\* A call of removeSparseVertices has just returned true and the loop goes on.
C12_WitnessSparse ==
  /\ origin = "random"
  /\ pc = "sparse"
  /\ ret = TRUE
  /\ Len(g.vertices) > 0

-----------------------------------------------------------------------------
(* A constructed Graph and the methods it leaves callable                   *)

\* Most calls of loadFromSerialized on a graph after its construction.
MaxLoads == 1

\* Data a graph is constructed from: a square with one diagonal, and a
\* triangle with an angle below 30 degrees.
PublicData ==
  {[vertices |-> CornerList(4),
    edges |-> <<<<0, 4>>, <<4, 2>>, <<2, 6>>, <<6, 0>>, <<0, 2>>>>],
   [vertices |-> <<<<Coordinate(0), Coordinate(0)>>, <<Coordinate(2), Coordinate(0)>>,
                   <<Coordinate(2), Coordinate(1)>>>>,
    edges |-> PairList(3, 1, 2)]}

PublicGraphs == RandomGraphs \cup {fromSerialized(data) : data \in PublicData}

\* Data loaded into a constructed graph: a vertex in the middle of the drawing
\* area and an edge between the first two vertices of the graph.
LoadedLater == [vertices |-> <<<<0, 0>>>>, edges |-> <<<<0, 2>>>>]

\* The vertices span the whole drawing area, which a vertex in its middle
\* leaves as it is: normalizeVerticesToGraphSpace then moves no vertex.
SpansDrawingArea(gr) ==
  /\ Len(gr.vertices) > 0
  /\ \A c \in 1..2 :
       /\ MinOf({gr.pos[v][c] : v \in Range(gr.vertices)}) = -ExactDiv(9 * Unit, 10)
       /\ MaxOf({gr.pos[v][c] : v \in Range(gr.vertices)}) = ExactDiv(9 * Unit, 10)

\* A graph as a constructor returned it; pending counts the later loads.
PublicInit ==
  /\ pc = "built"
  /\ origin = "public"
  /\ g \in PublicGraphs
  /\ pending = 0
  /\ input = <<>>
  /\ out = <<>>
  /\ ret = FALSE
  /\ app = <<>>

\* graph.removeEdge(edge) for an edge of graph.edges
RemoveEdgePublic ==
  /\ origin = "public"
  /\ \E k \in 1..Len(g.edges) : g' = removeEdge(g, g.edges[k])
  /\ UNCHANGED <<pc, origin, pending, input, out, ret, app>>

\* graph.removeSmallAngles(Math.PI / 6)
RemoveSmallAnglesPublic ==
  /\ origin = "public"
  /\ g' = Pipe(removeSmallAngles(g), LAMBDA r : r.g)
  /\ ret' = Pipe(removeSmallAngles(g), LAMBDA r : r.removed)
  /\ UNCHANGED <<pc, origin, pending, input, out, app>>

\* graph.removeSparseVertices()
RemoveSparseVerticesPublic ==
  /\ origin = "public"
  /\ g' = Pipe(removeSparseVertices(g), LAMBDA r : r.g)
  /\ ret' = Pipe(removeSparseVertices(g), LAMBDA r : r.removed)
  /\ UNCHANGED <<pc, origin, pending, input, out, app>>

\* graph.loadFromSerialized(data)
LoadFromSerializedPublic ==
  /\ origin = "public"
  /\ pending < MaxLoads
  /\ SpansDrawingArea(g)
  /\ g' = loadFromSerialized(g, LoadedLater)
  /\ pending' = pending + 1
  /\ UNCHANGED <<pc, origin, input, out, ret, app>>

\* graph.serialize()
SerializePublic ==
  /\ origin = "public"
  /\ out' = serialize(g)
  /\ UNCHANGED <<pc, origin, g, pending, input, ret, app>>

PublicNext ==
  \/ RemoveEdgePublic
  \/ RemoveSmallAnglesPublic
  \/ RemoveSparseVerticesPublic
  \/ LoadFromSerializedPublic
  \/ SerializePublic

SpecPublic == PublicInit /\ [][PublicNext]_vars

\* C13: in every state reached from a constructed graph by removeEdge,
\* removeSmallAngles, removeSparseVertices, loadFromSerialized and serialize,
\* every half-edge listed in a face of graph.faces is in graph.halfEdges and
\* its edge is in graph.edges.
C13_FacesMatchEdges ==
  (origin = "public") =>
    \A f \in 1..Len(g.faces) : \A i \in 1..Len(g.faces[f]) :
      /\ Contains(g.halfEdges, g.faces[f][i])
      /\ Contains(g.edges, EdgeOf(g.faces[f][i]))

-----------------------------------------------------------------------------
(* Claims about the faces that buildFaces stores                            *)

\* Twice the signed area of the polygon whose corners are the origins of the
\* half-edges of the list hs, in the order of the list (positive when the
\* corners go counter-clockwise with y up).
ShoelaceArea2(hs) ==
  Fold(LAMBDA sum, i : sum + Cross(g.pos[Origin(hs[i])],
                                   g.pos[Origin(hs[(i % Len(hs)) + 1])]),
       0, UpTo(Len(hs)))

PolygonArea2(f) == ShoelaceArea2(g.faces[f])

\* The closed walks along next that start at a half-edge left without face.
DiscardedWalks ==
  {walk \in {Traverse(g, h) : h \in Unassigned} : walk.closed}

\* C14: after buildFaces, on a generated or a deserialized graph, every face
\* of graph.faces has strictly positive signed area.
C14_FacesHavePositiveArea ==
  Constructed => \A f \in 1..Len(g.faces) : PolygonArea2(f) > 0

\* A built graph with a face, next to a closed walk of negative area that was
\* not stored.
C14_Witness ==
  /\ pc = "built"
  /\ Len(g.faces) >= 1
  /\ \E walk \in DiscardedWalks : computeFaceArea2(g, walk.halfEdges) < 0

\* A built graph with a face, next to a closed walk of area zero that was not
\* stored.
C14_WitnessFlat ==
  /\ pc = "built"
  /\ Len(g.faces) >= 1
  /\ \E walk \in DiscardedWalks : computeFaceArea2(g, walk.halfEdges) = 0

\* The half-edges met from h along next, h first, when the walk comes back to
\* h; <<>> when it ends at a half-edge without next or never comes back to h.
RECURSIVE NextWalk(_, _, _)
NextWalk(h, current, met) ==
  IF current = Null THEN <<>>
  ELSE IF met # <<>> /\ current = h THEN met
  ELSE IF Contains(met, current) THEN <<>>
  ELSE NextWalk(h, NextOf(g, current), Append(met, current))

\* The closed cycles of the next relation of g, each as the list that starts
\* at one of its half-edges.
NextCycles ==
  {cycle \in {NextWalk(h, h, <<>>) : h \in Range(g.halfEdges)} : cycle # <<>>}

NonPositiveCycles == {cycle \in NextCycles : ShoelaceArea2(cycle) <= 0}

\* The cycle is a face: one face lists exactly its half-edges, and each of
\* them has that face.
IsFace(cycle) ==
  \E f \in 1..Len(g.faces) :
    /\ Range(g.faces[f]) = Range(cycle)
    /\ Len(g.faces[f]) = Len(cycle)
    /\ \A i \in 1..Len(cycle) : FaceOf(g, cycle[i]) = f

\* The cycle was discarded: its half-edges have face = null and no face lists
\* one of them.
IsDiscarded(cycle) ==
  \A i \in 1..Len(cycle) :
    /\ FaceOf(g, cycle[i]) = 0
    /\ \A f \in 1..Len(g.faces) : ~Contains(g.faces[f], cycle[i])

\* C15 as stated: when the built graph has a closed next-cycle, exactly one
\* closed next-cycle has non-positive signed area, it is discarded with its
\* half-edges left without face, and every other closed next-cycle is a face.
\* (Every rotation of a cycle is in NextCycles, so cycles are counted by their
\* sets of half-edges.)
C15_ExactlyOneOuterCycle ==
  (Constructed /\ NextCycles # {}) =>
    /\ Cardinality({Range(cycle) : cycle \in NonPositiveCycles}) = 1
    /\ \A cycle \in NextCycles :
         IF ShoelaceArea2(cycle) <= 0 THEN IsDiscarded(cycle) ELSE IsFace(cycle)

\* C15, amended: after buildFaces every closed next-cycle of non-positive
\* signed area is discarded with its half-edges left without face, every
\* closed next-cycle of positive signed area is a face, and every face is a
\* closed next-cycle; the number of discarded cycles is not fixed.
C15_CyclesSplitByArea ==
  Constructed =>
    /\ \A cycle \in NextCycles :
         IF ShoelaceArea2(cycle) <= 0 THEN IsDiscarded(cycle) ELSE IsFace(cycle)
    /\ \A f \in 1..Len(g.faces) : g.faces[f] \in NextCycles

\* A built graph with a face and no closed next-cycle of non-positive area:
\* the walk around the outside ends at a vertex of degree 1.
C15_Witness ==
  /\ pc = "built"
  /\ Len(g.faces) >= 1
  /\ NonPositiveCycles = {}

\* A built graph with a face and two discarded cycles.
C15_WitnessTwoDiscarded ==
  /\ pc = "built"
  /\ Len(g.faces) >= 1
  /\ Cardinality({Range(cycle) : cycle \in NonPositiveCycles}) >= 2

\* A built graph with a face and exactly one discarded cycle, of negative
\* area.
C15_WitnessOuter ==
  /\ pc = "built"
  /\ Len(g.faces) >= 1
  /\ Cardinality({Range(cycle) : cycle \in NonPositiveCycles}) = 1
  /\ \A cycle \in NonPositiveCycles : ShoelaceArea2(cycle) < 0

-----------------------------------------------------------------------------
(* Claims about the linking of half-edges                                   *)

\* Directions a and b point the same way.
SameDirection(a, b) == Cross(a, b) = 0 /\ Dot(a, b) > 0

\* Direction d lies strictly inside the sector swept counter-clockwise from
\* direction a to direction b; the sector between two directions that point
\* the same way is empty.
StrictlyInsideTurn(a, d, b) ==
  /\ ~SameDirection(a, b)
  /\ ~SameDirection(a, d)
  /\ ~SameDirection(d, b)
  /\ IF Cross(a, b) > 0 THEN Cross(a, d) > 0 /\ Cross(d, b) > 0
     ELSE IF Cross(a, b) = 0 THEN Cross(a, d) > 0
     ELSE ~(Cross(b, d) >= 0 /\ Cross(d, a) >= 0)

\* The half-edges of graph.halfEdges that arrive at vertex v.
Arriving(v) == {h \in Range(g.halfEdges) : Origin(Twin(h)) = v}

\* Half-edge nx leaves v along the edge of v that comes first when turning
\* clockwise from the edge half-edge h arrives by: it is of another edge
\* object of v, and no edge of v lies strictly inside the turn.
ImmediatelyClockwise(v, h, nx) ==
  /\ Origin(nx) = v
  /\ Contains(g.vedges[v], EdgeOf(nx))
  /\ EdgeOf(nx) # EdgeOf(h)
  /\ \A k \in 1..Len(g.vedges[v]) :
       ~StrictlyInsideTurn(edgeAngle(g, v, EdgeOf(nx)),
                           edgeAngle(g, v, g.vedges[v][k]),
                           edgeAngle(g, v, EdgeOf(h)))

\* The faces are chained cycles: distinct half-edges, each followed in the
\* list by its next, which starts where it ends.
FacesAreChained ==
  \A f \in 1..Len(g.faces) :
    LET hs == g.faces[f]
    IN /\ Len(hs) >= 1
       /\ \A i, j \in 1..Len(hs) : i # j => hs[i] # hs[j]
       /\ \A i \in 1..Len(hs) :
            /\ NextOf(g, hs[i]) = hs[(i % Len(hs)) + 1]
            /\ Origin(NextOf(g, hs[i])) = Origin(Twin(hs[i]))

\* At a vertex with two or more edges, next turns clockwise.
NextTurnsClockwise ==
  \A k \in 1..Len(g.vertices) :
    LET v == g.vertices[k]
    IN Len(g.vedges[v]) >= 2 =>
         \A h \in Arriving(v) :
           /\ NextOf(g, h) # Null
           /\ ImmediatelyClockwise(v, h, NextOf(g, h))

\* C16 as stated: every face of a built graph lists distinct half-edges, each
\* followed by its next, whose origin is the origin of its twin; and at each
\* vertex of degree at least 2 the next of an arriving half-edge is the
\* outgoing half-edge immediately clockwise of the arriving edge.
C16_FacesAreClockwiseChains ==
  Constructed => (FacesAreChained /\ NextTurnsClockwise)

-----------------------------------------------------------------------------
(* Claims about face adjacency                                              *)

\* The faces other than f that the twin of a half-edge listed by f has.
AcrossAnEdge(f) ==
  {FaceOf(g, Twin(g.faces[f][i])) : i \in 1..Len(g.faces[f])} \ {0, f}

\* The half-edges listed by face f whose twin has face n.
SharedWith(f, n) ==
  {i \in 1..Len(g.faces[f]) : FaceOf(g, Twin(g.faces[f][i])) = n}

C17_WitnessThreeNeighbors ==
  /\ pc = "built"
  /\ \E f \in 1..Len(g.faces) : Len(neighboringFaces(g, f)) >= 3

\* A generated graph with two faces that are neighbors of each other.
C17_WitnessGenerated ==
  /\ pc = "built"
  /\ origin = "random"
  /\ Len(g.faces) >= 2
  /\ neighboringFaces(g, 1) = <<2>>

=============================================================================
